---- MODULE Spec2Model ----
(***************************************************************************)
(* Steganographic codecs of stealth-stream-app (lib/steganography):       *)
(* seeded index generator, bit-stream helpers, and the text, image, audio *)
(* and video codecs.  Strings are sequences of UTF-16 code units, bit     *)
(* strings are sequences of 0/1, typed arrays are functions on 0..n-1.    *)
(***************************************************************************)
EXTENDS Integers, Sequences, FiniteSets, TLC

VARIABLES audio, video, text, image, idx, gens, vote, cap

vars == <<audio, video, text, image, idx, gens, vote, cap>>

----------------------------------------------------------------------------
(* Generic helpers                                                         *)

Min(a, b) == IF a < b THEN a ELSE b

Max(a, b) == IF a > b THEN a ELSE b

RECURSIVE FoldRange(_, _, _, _)
(* A for loop: the value of st after Step(st, lo), Step(., lo + 1), ...,
   Step(., hi) in this order.  The range is split in halves and the first
   half is evaluated before the second, which keeps the evaluation depth
   logarithmic in the number of iterations. *)
FoldRange(Step(_, _), st, lo, hi) ==
    IF lo > hi THEN st
    ELSE IF lo = hi THEN Step(st, lo)
    ELSE LET mid == (lo + hi) \div 2
             left == FoldRange(Step, st, lo, mid)
         IN IF left = left THEN FoldRange(Step, left, mid + 1, hi) ELSE st

(* String.prototype.substr(start, length), 0-based, clamped at the end *)
Substr(s, start, len) ==
    IF start >= Len(s) \/ len <= 0 THEN <<>>
    ELSE SubSeq(s, start + 1, Min(start + len, Len(s)))

(* String.prototype.substring(0, end) *)
Substring0(s, end) == SubSeq(s, 1, Min(end, Len(s)))

(* String.prototype.slice(start) *)
SliceFrom(s, start) == SubSeq(s, Min(start, Len(s)) + 1, Len(s))

(* String.prototype.indexOf(needle): first 0-based offset, -1 if absent *)
IndexOf(hay, needle) ==
    LET hits == {i \in 0..(Len(hay) - Len(needle)) :
                    SubSeq(hay, i + 1, i + Len(needle)) = needle}
    IN IF hits = {} THEN -1 ELSE CHOOSE i \in hits : \A k \in hits : i <= k

(* String.prototype.endsWith(suffix) *)
EndsWith(s, suffix) ==
    /\ Len(s) >= Len(suffix)
    /\ SubSeq(s, Len(s) - Len(suffix) + 1, Len(s)) = suffix

RECURSIVE ToBin(_)
(* Number.prototype.toString(2) for a non-negative integer *)
ToBin(v) == IF v < 2 THEN <<v>> ELSE Append(ToBin(v \div 2), v % 2)

(* String.prototype.padStart(width, '0'): never truncates *)
PadStart(bits, width) ==
    IF Len(bits) >= width THEN bits
    ELSE [k \in 1..(width - Len(bits)) |-> 0] \o bits

(* parseInt(bits, 2) yields NaN on the empty string; NaN is modelled by -1 *)
NaN == -1

(* Values above this are kept as this value: every use compares the parsed
   number with string lengths, all far below it (a 32-bit length does not
   fit the checker's integers). *)
Huge == 1048576

(* parseInt(bits, 2) *)
ParseInt2(bits) ==
    IF bits = <<>> THEN NaN
    ELSE FoldRange(LAMBDA acc, k : Min(Huge, 2 * acc + bits[k]), 0, 1, Len(bits))

----------------------------------------------------------------------------
(* Helpers used by both classes (part_002 lines 1223-1274)                 *)

(* A 32-bit unsigned word is kept as <<high 16 bits, low 16 bits>>. *)
Word16 == 65536

(* state = (state * 31 + seed.charCodeAt(i)) >>> 0 *)
HashStep(st, c) ==
    LET lo == st[2] * 31 + c
        hi == st[1] * 31 + (lo \div Word16)
    IN <<hi % Word16, lo % Word16>>

(* for (i = 0; i < seed.length; i++) state = ... *)
HashSeed(st, seed) ==
    FoldRange(LAMBDA s, i : HashStep(s, seed[i]), st, 1, Len(seed))

(* state = (state * 1664525 + 1013904223) >>> 0
   1664525 = 25 * 2^16 + 26125, 1013904223 = 15470 * 2^16 + 62303 *)
LcgStep(st) ==
    LET lo == st[2] * 26125 + 62303
        hi == st[1] * 26125 + st[2] * 25 + 15470 + (lo \div Word16)
    IN <<hi % Word16, lo % Word16>>

(* seededPRNG(seed): the closure's initial state *)
SeededPRNG(seed) == HashSeed(<<0, 0>>, seed)

(* `count` successive calls of the closure whose state is st *)
PrngRun(st, count) ==
    FoldRange(LAMBDA r, k : LET nx == LcgStep(r.state)
                            IN [state |-> nx, outs |-> Append(r.outs, nx)],
              [state |-> st, outs |-> <<>>], 1, count)

(* The first `count` values (numerators of state / 2^32) returned by
   successive calls of the closure seededPRNG(seed). *)
PrngOutputs(seed, count) == PrngRun(SeededPRNG(seed), count).outs

(* Math.floor(prng() * (i + 1)) with prng() = w / 2^32; exact in doubles
   because w * (i + 1) < 2^53. *)
ScaleIndex(w, bound) ==
    (w[1] * bound + ((w[2] * bound) \div Word16)) \div Word16

(* for (i = length - 1; i >= length - needed; i--) swap arr[i], arr[j]:
   the k-th iteration has i = length - k and makes the k-th call of prng *)
ShuffleLoop(arr, prng, length, needed) ==
    FoldRange(LAMBDA a, k : LET i == length - k
                                j == ScaleIndex(prng[k], i + 1)
                            IN [a EXCEPT ![i] = a[j], ![j] = a[i]],
              arr, 1, needed)

(* generateIndicesPRNG throws when needed > length *)
IndicesThrows(length, needed) == needed > length

GenerateIndicesNoShuffle(prng, length, needed) ==
    [k \in 1..needed |-> ScaleIndex(prng[k], length - k + 1)]

(* generateIndicesPRNG(prng, length, needed), for needed <= length; prng is
   the sequence of values the closure returns on successive calls. *)
GenerateIndicesPRNG(prng, length, needed) ==
    LET arr == ShuffleLoop([i \in 0..(length - 1) |-> i], prng, length, needed)
    IN [k \in 1..needed |-> arr[length - needed + k - 1]]

GenerateIndicesSwallowed(prng, length, needed) ==
    IF IndicesThrows(length, needed) THEN [kind |-> "indices", value |-> <<>>]
    ELSE [kind |-> "indices", value |-> GenerateIndicesPRNG(prng, length, needed)]

(* generateIndicesPRNG as its caller sees it: the exception of the first
   line or the array returned *)
GenerateIndices(prng, length, needed) ==
    IF IndicesThrows(length, needed)
    THEN [kind |-> "throw", value |-> <<>>, error |-> "needed > length"]
    ELSE [kind |-> "indices", value |-> GenerateIndicesPRNG(prng, length, needed)]

(* bytesToBitString: s += b.toString(2).padStart(8, '0') for each byte *)
BytesToBitString(bytes) ==
    FoldRange(LAMBDA s, k : s \o PadStart(ToBin(bytes[k]), 8), <<>>, 1, Len(bytes))

(* bitStringToBytes: floor(length / 8) bytes, trailing bits dropped *)
BitStringToBytes(bits) ==
    [i \in 1..(Len(bits) \div 8) |-> ParseInt2(Substr(bits, (i - 1) * 8, 8))]

(* ones >= 2 ? '1' : '0' *)
MajorityUnanimous(triplet) ==
    IF triplet[1] + triplet[2] + triplet[3] >= 3 THEN 1 ELSE 0

Majority(triplet) ==
    IF triplet[1] + triplet[2] + triplet[3] >= 2 THEN 1 ELSE 0

(* decodeRedundantBits: majority vote per complete triplet, stops at the
   first incomplete one *)
DecodeRedundantBits(redundantBits) ==
    [t \in 1..(Len(redundantBits) \div 3) |->
        Majority(SubSeq(redundantBits, 3 * t - 2, 3 * t))]

(* fullBinary.split('').flatMap(bit => [bit, bit, bit]).join('') *)
ApplyRedundancy(bits) == [k \in 1..(3 * Len(bits)) |-> bits[(k + 2) \div 3]]

----------------------------------------------------------------------------
(* Results of encode / decode                                              *)

(* `return null` *)
Null == [kind |-> "null", value |-> <<>>]

(* `return <string>` *)
Str(s) == [kind |-> "string", value |-> s]

(* `throw new Error(...)` *)
Thrown(msg) == [kind |-> "throw", value |-> <<>>, error |-> msg]

(* `x || null`: the empty string is falsy *)
OrNull(s) == IF s = <<>> THEN Null ELSE Str(s)

----------------------------------------------------------------------------
(* CryptoJS, TextEncoder, TextDecoder: external collaborators              *)

(* `password` is undefined or '' when no password is used: both are falsy *)
NoPassword == <<>>

SumSeq(s) == FoldRange(LAMBDA acc, k : acc + s[k], 0, 1, Len(s))

(* Key material derived from the passphrase and the random salt *)
CipherKey(password, salt) == (SumSeq(password) + 3 * salt) % 95

(* Stands for the padding check of the last block: differs between any two
   passphrases whose character sums differ by less than 26 *)
CipherCheck(password, salt) == 65 + ((SumSeq(password) + 3 * salt) % 26)

(* CryptoJS.AES.encrypt(plaintext, password).toString(): a printable string
   that starts with a fixed prefix, carries the salt drawn for this call and
   is longer than the plaintext.  Plaintext characters are printable ASCII. *)
Encrypt(plaintext, password, salt) ==
    <<85, 48 + salt, CipherCheck(password, salt)>> \o
    [i \in 1..Len(plaintext) |->
        32 + ((plaintext[i] - 32 + CipherKey(password, salt)) % 95)]

(* The string is one that Encrypt can have produced under `password` *)
WellFormedCiphertext(c, password) ==
    /\ Len(c) >= 3
    /\ c[1] = 85
    /\ c[2] \in 48..57
    /\ c[3] = CipherCheck(password, c[2] - 48)
    /\ \A i \in 4..Len(c) : c[i] \in 32..126

(* CryptoJS.AES.decrypt(c, password).toString(CryptoJS.enc.Utf8): the
   plaintext; the empty string for the empty input; the exception 'Malformed
   UTF-8 data' when the passphrase does not match or the input is not a
   ciphertext. *)
Decrypt(c, password) ==
    IF c = <<>> THEN Str(<<>>)
    ELSE IF ~WellFormedCiphertext(c, password) THEN Thrown("Malformed UTF-8 data")
    ELSE LET key == CipherKey(password, c[2] - 48)
         IN Str([i \in 1..(Len(c) - 3) |-> 32 + ((c[i + 3] - 32 + 95 - key) % 95)])

(* try { ...decrypt...; return decryptedMessage || null } catch { return null } *)
TryDecrypt(decodedMessage, password) ==
    LET decrypted == Decrypt(decodedMessage, password)
    IN IF decrypted.kind = "throw" THEN Null ELSE OrNull(decrypted.value)

CatchNothing(outcome) == outcome

(* try { <body of decode> } catch { return null } *)
CatchAll(outcome) == IF outcome.kind = "throw" THEN Null ELSE outcome

(* CryptoJS.SHA256(password).toString(): 64 hexadecimal digits.  The digests
   of the passphrases "a" and "b" are the real ones. *)
Sha256Hex(password) ==
    IF password = <<97>> THEN
      <<99, 97, 57, 55, 56, 49, 49, 50, 99, 97, 49, 98, 98, 100, 99, 97,
        102, 97, 99, 50, 51, 49, 98, 51, 57, 97, 50, 51, 100, 99, 52, 100,
        97, 55, 56, 54, 101, 102, 102, 56, 49, 52, 55, 99, 52, 101, 55, 50,
        98, 57, 56, 48, 55, 55, 56, 53, 97, 102, 101, 101, 52, 56, 98, 98>>
    ELSE IF password = <<98>> THEN
      <<51, 101, 50, 51, 101, 56, 49, 54, 48, 48, 51, 57, 53, 57, 52, 97,
        51, 51, 56, 57, 52, 102, 54, 53, 54, 52, 101, 49, 98, 49, 51, 52,
        56, 98, 98, 100, 55, 97, 48, 48, 56, 56, 100, 52, 50, 99, 52, 97,
        99, 98, 55, 51, 101, 101, 97, 101, 100, 53, 57, 99, 48, 48, 57, 100>>
    ELSE [i \in 1..64 |-> 48 + ((SumSeq(password) + i) % 10)]

(* UTF-8 bytes of code unit c, for c below U+D800 *)
Utf8Bytes(c) ==
    IF c < 128 THEN <<c>>
    ELSE IF c < 2048 THEN <<192 + (c \div 64), 128 + (c % 64)>>
    ELSE <<224 + (c \div 4096), 128 + ((c \div 64) % 64), 128 + (c % 64)>>

(* new TextEncoder().encode(s) *)
Utf8Encode(s) ==
    FoldRange(LAMBDA bytes, k : bytes \o Utf8Bytes(s[k]), <<>>, 1, Len(s))

(* Allowed range of the byte that follows lead byte b (WHATWG UTF-8 decoder) *)
Utf8SecondLow(b) == IF b = 224 THEN 160 ELSE IF b = 240 THEN 144 ELSE 128

Utf8SecondHigh(b) == IF b = 237 THEN 159 ELSE IF b = 244 THEN 143 ELSE 191

(* Number of continuation bytes lead byte b asks for, -1 for an invalid lead *)
Utf8Needed(b) ==
    IF b \in 194..223 THEN 1
    ELSE IF b \in 224..239 THEN 2
    ELSE IF b \in 240..244 THEN 3
    ELSE -1

(* Code units of code point cp (a surrogate pair above U+FFFF) *)
CodeUnits(cp) ==
    IF cp < 65536 THEN <<cp>>
    ELSE <<55296 + ((cp - 65536) \div 1024), 56320 + ((cp - 65536) % 1024)>>

(* The characters decoded from the sequence that starts at pos, and the
   position of the next sequence *)
Utf8DecodeAt(bytes, pos) ==
    LET b == bytes[pos]
        need == Utf8Needed(b)
        ok(k) == /\ pos + k <= Len(bytes)
                 /\ IF k = 1
                    THEN bytes[pos + 1] \in Utf8SecondLow(b)..Utf8SecondHigh(b)
                    ELSE bytes[pos + k] \in 128..191
        good == IF ok(1) THEN (IF need >= 2 /\ ok(2)
                               THEN (IF need >= 3 /\ ok(3) THEN 3 ELSE 2)
                               ELSE 1)
                ELSE 0
        lead == IF need = 1 THEN b - 192
                ELSE IF need = 2 THEN b - 224 ELSE b - 240
        cp1 == lead * 64 + (bytes[pos + 1] - 128)
        cp2 == cp1 * 64 + (bytes[pos + 2] - 128)
        cp3 == cp2 * 64 + (bytes[pos + 3] - 128)
    IN IF b < 128 THEN [chars |-> <<b>>, next |-> pos + 1]
       ELSE IF need = -1 THEN [chars |-> <<65533>>, next |-> pos + 1]
       ELSE IF good < need THEN [chars |-> <<65533>>, next |-> pos + 1 + good]
       ELSE [chars |-> CodeUnits(IF need = 1 THEN cp1
                                 ELSE IF need = 2 THEN cp2 ELSE cp3),
             next |-> pos + 1 + need]

Utf8DecodeFrom(bytes, start) ==
    FoldRange(LAMBDA st, pos :
        IF pos < st.next THEN st
        ELSE LET d == Utf8DecodeAt(bytes, pos)
             IN [chars |-> st.chars \o d.chars, next |-> d.next],
        [chars |-> <<>>, next |-> start], start, Len(bytes)).chars

(* new TextDecoder().decode(bytes): malformed input becomes U+FFFD, a leading
   byte order mark is dropped *)
Utf8Decode(bytes) ==
    IF Len(bytes) >= 3 /\ SubSeq(bytes, 1, 3) = <<239, 187, 191>>
    THEN Utf8DecodeFrom(bytes, 4)
    ELSE Utf8DecodeFrom(bytes, 1)

----------------------------------------------------------------------------
(* TextSteganography (part_002 lines 1310-1430)                            *)

ZERO_WIDTH_SPACE == 8203

ZERO_WIDTH_NON_JOINER == 8204

ZERO_WIDTH_JOINER == 8205

ZERO_WIDTH_NO_BREAK_SPACE == 65279

(* The character class [\u200B\u200C\u200D\uFEFF] *)
Markers == {ZERO_WIDTH_SPACE, ZERO_WIDTH_NON_JOINER, ZERO_WIDTH_JOINER,
            ZERO_WIDTH_NO_BREAK_SPACE}

(* '1111111111111110' *)
EndMarker == <<1, 1, 1, 1, 1, 1, 1, 1, 1, 1, 1, 1, 1, 1, 1, 0>>

(* split('').map(c => c.charCodeAt(0).toString(2).padStart(8, '0')).join('') *)
StringToBinary(s) ==
    FoldRange(LAMBDA b, k : b \o PadStart(ToBin(s[k]), 8), <<>>, 1, Len(s))

(* messageBinary -> text: one character per complete group of 8 bits *)
BinaryToText(messageBinary) ==
    [k \in 1..(Len(messageBinary) \div 8) |->
        ParseInt2(Substr(messageBinary, (k - 1) * 8, 8))]

MarkerForPairSwapped(pair) ==
    IF pair = <<0, 0>> THEN ZERO_WIDTH_SPACE
    ELSE IF pair = <<0, 1>> THEN ZERO_WIDTH_JOINER
    ELSE IF pair = <<1, 0>> THEN ZERO_WIDTH_NON_JOINER
    ELSE ZERO_WIDTH_NO_BREAK_SPACE

(* switch (pair) in encode *)
MarkerForPair(pair) ==
    IF pair = <<0, 0>> THEN ZERO_WIDTH_SPACE
    ELSE IF pair = <<0, 1>> THEN ZERO_WIDTH_NON_JOINER
    ELSE IF pair = <<1, 0>> THEN ZERO_WIDTH_JOINER
    ELSE ZERO_WIDTH_NO_BREAK_SPACE

(* switch (char) in decode *)
PairForMarkerSwapped(c) ==
    IF c = ZERO_WIDTH_SPACE THEN <<0, 0>>
    ELSE IF c = ZERO_WIDTH_NON_JOINER THEN <<1, 0>>
    ELSE IF c = ZERO_WIDTH_JOINER THEN <<0, 1>>
    ELSE <<1, 1>>

PairForMarker(c) ==
    IF c = ZERO_WIDTH_SPACE THEN <<0, 0>>
    ELSE IF c = ZERO_WIDTH_NON_JOINER THEN <<0, 1>>
    ELSE IF c = ZERO_WIDTH_JOINER THEN <<1, 0>>
    ELSE <<1, 1>>

(* s.replace(/[\u200B\u200C\u200D\uFEFF]/g, '') *)
StripMarkers(s) == SelectSeq(s, LAMBDA c : c \notin Markers)

(* s.match(/[\u200B\u200C\u200D\uFEFF]/g) || [] *)
MatchMarkers(s) == SelectSeq(s, LAMBDA c : c \in Markers)

(* for (i = 0; i < coverText.length && binaryIndex < length; i++): once the
   second condition fails the loop is over and the remaining i do nothing *)
TextEmbedLoop(coverText, bits) ==
    FoldRange(LAMBDA st, i :
        IF ~(st.binaryIndex < Len(bits)) THEN st
        ELSE LET withChar == Append(st.result, coverText[i + 1])
             IN IF st.binaryIndex < Len(bits) - 1
                THEN [result |-> Append(withChar,
                                     MarkerForPair(Substr(bits, st.binaryIndex, 2))),
                      binaryIndex |-> st.binaryIndex + 2]
                ELSE [result |-> withChar, binaryIndex |-> st.binaryIndex],
        [result |-> <<>>, binaryIndex |-> 0], 0, Len(coverText) - 1).result

(* TextSteganography.encode; salt is the one CryptoJS draws for this call *)
TextEncode(coverText, secretMessage, password, salt) ==
    LET messageToEncode == IF password # NoPassword
                           THEN Encrypt(secretMessage, password, salt)
                           ELSE secretMessage
        binaryWithMarker == StringToBinary(messageToEncode) \o EndMarker
        result == TextEmbedLoop(coverText, binaryWithMarker)
    IN result \o SliceFrom(coverText, Len(StripMarkers(result)))

(* for (const char of zeroWidthChars) binary += <pair> *)
MarkersToBinary(zeroWidthChars) ==
    FoldRange(LAMBDA binary, k : binary \o PairForMarker(zeroWidthChars[k]),
              <<>>, 1, Len(zeroWidthChars))

(* TextSteganography.decode *)
TextDecode(stegoText, password) ==
    LET zeroWidthChars == MatchMarkers(stegoText)
        binary == MarkersToBinary(zeroWidthChars)
        endIndex == IndexOf(binary, EndMarker)
        decodedMessage == BinaryToText(Substring0(binary, endIndex))
    IN CatchAll(IF zeroWidthChars = <<>> THEN Null
                ELSE IF endIndex = -1 THEN Null
                ELSE IF password # NoPassword
                     THEN TryDecrypt(decodedMessage, password)
                ELSE Str(decodedMessage))

----------------------------------------------------------------------------
(* ImageSteganography (part_002 lines 1433-1525).  `data` is the RGBA byte
   array of the canvas, a function on 0..4*pixels-1.                        *)

(* data[pixelIndex] = (data[pixelIndex] & 0xFE) | bit *)
SetLsb8NoClear(byte, bit) == IF byte % 2 = 1 THEN byte ELSE byte + bit

SetLsb8Overwrite(byte, bit) == bit

SetLsb8(byte, bit) == byte - (byte % 2) + bit

(* for (i = 0; i < binaryMessage.length; i++) data[i * 4] = ... *)
ImageEmbedLoop(data, bits) ==
    FoldRange(LAMBDA d, i : [d EXCEPT ![i * 4] = SetLsb8(d[i * 4], bits[i + 1])],
              data, 0, Len(bits) - 1)

(* Number of pixels: data.length / 4 *)
PixelCount(data) == Cardinality(DOMAIN data) \div 4

ImageEncodeWriteFirst(data, secretMessage, password, salt) ==
    LET messageToEncode == IF password # NoPassword
                           THEN Encrypt(secretMessage, password, salt)
                           ELSE secretMessage
        binaryMessage == StringToBinary(messageToEncode) \o EndMarker
        fitting == SubSeq(binaryMessage, 1, Min(Len(binaryMessage), PixelCount(data)))
    IN [error |-> IF Len(binaryMessage) > PixelCount(data)
                  THEN "Message too large for this image" ELSE "",
        data |-> ImageEmbedLoop(data, fitting)]

(* ImageSteganography.encode: the error thrown ("" if none) and the canvas
   content afterwards *)
ImageEncode(data, secretMessage, password, salt) ==
    LET messageToEncode == IF password # NoPassword
                           THEN Encrypt(secretMessage, password, salt)
                           ELSE secretMessage
        binaryMessage == StringToBinary(messageToEncode) \o EndMarker
    IN IF Len(binaryMessage) > PixelCount(data)
       THEN [error |-> "Message too large for this image", data |-> data]
       ELSE [error |-> "", data |-> ImageEmbedLoop(data, binaryMessage)]

(* reads red-channel LSBs until the stream ends with the end marker *)
ImageReadLoop(data) ==
    FoldRange(LAMBDA st, i :
        IF st.done THEN st
        ELSE LET next == Append(st.binary, data[i * 4] % 2)
             IN [done |-> EndsWith(next, EndMarker), binary |-> next],
        [done |-> FALSE, binary |-> <<>>], 0, PixelCount(data) - 1).binary

ImageDecodeUnchecked(data, password) ==
    LET binary == ImageReadLoop(data)
        endIndex == IndexOf(binary, EndMarker)
        decodedMessage == BinaryToText(IF endIndex = -1 THEN binary
                                       ELSE Substring0(binary, endIndex))
    IN CatchAll(IF password # NoPassword
                THEN TryDecrypt(decodedMessage, password)
                ELSE Str(decodedMessage))

(* ImageSteganography.decode *)
ImageDecode(data, password) ==
    LET binary == ImageReadLoop(data)
        endIndex == IndexOf(binary, EndMarker)
        decodedMessage == BinaryToText(Substring0(binary, endIndex))
    IN CatchAll(IF endIndex = -1 THEN Null
                ELSE IF password # NoPassword
                     THEN TryDecrypt(decodedMessage, password)
                ELSE Str(decodedMessage))

----------------------------------------------------------------------------
(* Length-prefixed frames shared by AudioSteganography and
   VideoSteganography                                                      *)

(* triple redundancy *)
redundancy == 3

(* 'default-seed' *)
DefaultSeed == <<100, 101, 102, 97, 117, 108, 116, 45, 115, 101, 101, 100>>

(* password ? CryptoJS.SHA256(password).toString() : 'default-seed' *)
SeedFor(password) ==
    IF password # NoPassword THEN Sha256Hex(password) ELSE DefaultSeed

(* headerBinary + lenBinary + messageBinary, the payload being the UTF-8
   bytes of messageToEncode *)
FullBinary(header, messageToEncode) ==
    LET msgBytes == Utf8Encode(messageToEncode)
    IN BytesToBitString(header) \o PadStart(ToBin(Len(msgBytes)), 32)
       \o BytesToBitString(msgBytes)

(* After TextDecoder: decrypt if a password is given *)
Deliver(decodedMessage, password) ==
    IF password # NoPassword THEN TryDecrypt(decodedMessage, password)
    ELSE Str(decodedMessage)

(* The early-exit attempt inside the read loops: done is TRUE when the
   attempt returns from decode *)
TryEarlyDecode(decodedSoFar, headerBinary, password) ==
    LET headerIndex == IndexOf(decodedSoFar, headerBinary)
        bodyStart == headerIndex + Len(headerBinary) + 32
        msgLen == ParseInt2(Substr(decodedSoFar, headerIndex + Len(headerBinary), 32))
        totalMsgBits == msgLen * 8
    IN IF headerIndex # -1 /\ Len(decodedSoFar) >= bodyStart
          /\ Len(decodedSoFar) >= bodyStart + totalMsgBits
       THEN [done |-> TRUE,
             result |-> Deliver(Utf8Decode(BitStringToBytes(
                            Substr(decodedSoFar, bodyStart, totalMsgBits))), password)]
       ELSE [done |-> FALSE, result |-> Null]

(* The final attempt after the read loops *)
FinalDecode(decodedAll, headerBinary, password) ==
    LET headerIndex == IndexOf(decodedAll, headerBinary)
        msgLen == ParseInt2(Substr(decodedAll, headerIndex + Len(headerBinary), 32))
        totalMsgBits == IF msgLen = NaN THEN NaN ELSE msgLen * 8
        messageBits == IF totalMsgBits = NaN THEN <<>>
                       ELSE Substr(decodedAll, headerIndex + Len(headerBinary) + 32,
                                   totalMsgBits)
    IN IF headerIndex = -1 THEN Null
       ELSE IF totalMsgBits # NaN /\ Len(messageBits) < totalMsgBits THEN Null
       ELSE Deliver(Utf8Decode(BitStringToBytes(messageBits)), password)

----------------------------------------------------------------------------
(* AudioSteganography (part_002 lines 1528-1708).  `samples` is the
   Int16Array of the first channel, a function on 0..n-1.                  *)

(* 'USTEGA1' *)
AudioHeader == <<85, 83, 84, 69, 71, 65, 49>>

(* Math.floor(x * 0.8): the double product rounds to 4x/5 when that is an
   integer and is otherwise at least 0.2 away from an integer *)
FloorEmbeddingFraction(x) == (4 * x) \div 5

SampleCount(samples) == Cardinality(DOMAIN samples)

AudioCapacityHeaderOnly(n) ==
    Max(0, ((FloorEmbeddingFraction(n) \div redundancy) \div 8) - 7)

(* AudioSteganography.calculateCapacity, from the number of samples *)
AudioCalculateCapacity(n) ==
    Max(0, ((FloorEmbeddingFraction(n) \div redundancy) \div 8) - (7 + 4))

SetLsb16Magnitude(sample, bit) ==
    IF sample < 0 THEN -((-sample) - ((-sample) % 2) + bit)
    ELSE sample - (sample % 2) + bit

(* modifiedSamples[i] = (modifiedSamples[i] & 0xFFFE) | bit, stored back into
   an Int16Array: the low 16 bits with bit 0 replaced, read as signed *)
SetLsb16(sample, bit) ==
    LET u == (sample % 65536) - (sample % 2) + bit
    IN IF u >= 32768 THEN u - 65536 ELSE u

(* for (i = 0; i < redundantBinary.length; i++) modifiedSamples[indices[i]] = ... *)
AudioEmbedLoop(samples, indices, bits) ==
    FoldRange(LAMBDA m, i : [m EXCEPT ![indices[i]] = SetLsb16(m[indices[i]], bits[i])],
              samples, 1, Len(bits))

(* AudioSteganography.encode on the decoded samples: the error thrown ("" if
   none) and the samples written to the output file *)
AudioEncode(samples, secretMessage, password, salt) ==
    LET messageToEncode == IF password # NoPassword
                           THEN Encrypt(secretMessage, password, salt)
                           ELSE secretMessage
        redundantBinary == ApplyRedundancy(FullBinary(AudioHeader, messageToEncode))
        n == SampleCount(samples)
        capacityBits == FloorEmbeddingFraction(n)
        prng == PrngOutputs(SeedFor(password), Len(redundantBinary))
        indices == GenerateIndicesPRNG(prng, n, Len(redundantBinary))
    IN IF Len(redundantBinary) > capacityBits
       THEN [error |-> "Message too large for this audio file", samples |-> samples]
       ELSE IF IndicesThrows(n, Len(redundantBinary))
       THEN [error |-> GenerateIndices(prng, n, Len(redundantBinary)).error,
             samples |-> samples]
       ELSE [error |-> "",
             samples |-> AudioEmbedLoop(samples, indices, redundantBinary)]

(* One iteration of a read loop: append the bit, then try to decode early
   once header and length can be present.  A state with done = TRUE is one
   where decode has returned. *)
ReadStep(st, bit, headerBinary, password) ==
    IF st.done THEN st
    ELSE LET stream == Append(st.stream, bit)
             minRedundantNeeded == (Len(headerBinary) + 32) * redundancy
             early == IF Len(stream) >= minRedundantNeeded
                      THEN TryEarlyDecode(DecodeRedundantBits(stream),
                                          headerBinary, password)
                      ELSE [done |-> FALSE, result |-> Null]
         IN [done |-> early.done, result |-> early.result, stream |-> stream]

(* for (i = 0; i < indices.length; i++) redundantStream += samples[indices[i]] & 1 *)
AudioReadLoop(samples, indices, password) ==
    FoldRange(LAMBDA st, i : ReadStep(st, samples[indices[i]] % 2,
                                      BytesToBitString(AudioHeader), password),
              [done |-> FALSE, result |-> Null, stream |-> <<>>], 1, Len(indices))

(* AudioSteganography.decode on the decoded samples *)
AudioDecode(samples, password) ==
    LET n == SampleCount(samples)
        capacityBits == FloorEmbeddingFraction(n)
        prng == PrngOutputs(SeedFor(password), capacityBits)
        indices == GenerateIndicesPRNG(prng, n, capacityBits)
        read == AudioReadLoop(samples, indices, password)
    IN IF read.done THEN read.result
       ELSE FinalDecode(DecodeRedundantBits(read.stream),
                        BytesToBitString(AudioHeader), password)

----------------------------------------------------------------------------
(* VideoSteganography (part_002 lines 1711-1963).  `frames` is the sequence
   of RGBA byte arrays (ImageData.data) that videoToFrames returns, all of
   width * height pixels.                                                  *)

(* 'VSTEGA1' *)
VideoHeader == <<86, 83, 84, 69, 71, 65, 49>>

(* Math.floor(x * 0.3): the double product rounds to 3x/10 when that is an
   integer and is otherwise at least 0.1 away from an integer *)
FloorEmbeddingRate(x) == (3 * x) \div 10

CeilEmbeddingRateFloored(x) == (3 * x) \div 10

(* Math.ceil(x * 0.3) *)
CeilEmbeddingRate(x) == (3 * x + 9) \div 10

RECURSIVE DecimalDigits(_)
(* String(frameIdx) *)
DecimalDigits(v) ==
    IF v < 10 THEN <<48 + v>> ELSE Append(DecimalDigits(v \div 10), 48 + (v % 10))

(* seed + ':' + frameIdx *)
FrameSeed(seed, frameIdx) == seed \o <<58>> \o DecimalDigits(frameIdx)

VideoCapacityNoRedundancy(frameCount, width, height) ==
    IF frameCount = 0 THEN 0
    ELSE Max(0, (FloorEmbeddingRate(frameCount * width * height) \div 8) - (7 + 4))

(* VideoSteganography.calculateCapacity, from what videoToFrames returns;
   videoToFrames throws when no frame was extracted and the catch returns 0 *)
VideoCalculateCapacity(frameCount, width, height) ==
    IF frameCount = 0 THEN 0
    ELSE Max(0, ((FloorEmbeddingRate(frameCount * width * height) \div redundancy)
                 \div 8) - (7 + 4))

(* The inner loop of encode over one frame: bit bitIndex + pi - 1 goes into
   the blue byte of pixel pixelIndices[pi] *)
VideoEmbedFrame(data, pixelIndices, bits, bitIndex) ==
    FoldRange(LAMBDA d, pi :
        IF ~(bitIndex + pi - 1 < Len(bits)) THEN d
        ELSE LET blueIdx == pixelIndices[pi] * 4 + 2
             IN [d EXCEPT ![blueIdx] = SetLsb8(d[blueIdx], bits[bitIndex + pi])],
        data, 1, Len(pixelIndices))

(* for (frameIdx = 0; frameIdx < frames.length && bitIndex < length; frameIdx++) *)
VideoEmbedLoop(frames, bits, seed) ==
    FoldRange(LAMBDA st, frameIdx :
        IF ~(st.bitIndex < Len(bits)) THEN st
        ELSE LET data == st.frames[frameIdx + 1]
                 pixels == PixelCount(data)
                 availableThisFrame == Min(CeilEmbeddingRate(pixels),
                                           Len(bits) - st.bitIndex)
                 framePrng == PrngOutputs(FrameSeed(seed, frameIdx), availableThisFrame)
                 pixelIndices == GenerateIndicesPRNG(framePrng, pixels, availableThisFrame)
             IN [frames |-> [st.frames EXCEPT ![frameIdx + 1] =
                                VideoEmbedFrame(data, pixelIndices, bits, st.bitIndex)],
                 bitIndex |-> Min(Len(bits), st.bitIndex + Len(pixelIndices))],
        [frames |-> frames, bitIndex |-> 0], 0, Len(frames) - 1)

(* VideoSteganography.encode on the extracted frames: the error thrown ("" if
   none), the frames handed to framesToVideo and the final bitIndex *)
VideoEncode(frames, width, height, secretMessage, password, salt) ==
    LET messageToEncode == IF password # NoPassword
                           THEN Encrypt(secretMessage, password, salt)
                           ELSE secretMessage
        redundantBinary == ApplyRedundancy(FullBinary(VideoHeader, messageToEncode))
        totalPixels == Len(frames) * width * height
        capacityBits == FloorEmbeddingRate(totalPixels)
        embedded == VideoEmbedLoop(frames, redundantBinary, SeedFor(password))
    IN IF Len(redundantBinary) > capacityBits
       THEN [error |-> "Message too large for this video", frames |-> frames,
             bitIndex |-> 0]
       ELSE [error |-> "", frames |-> embedded.frames, bitIndex |-> embedded.bitIndex]

(* for (frameIdx ...) for (p ...) redundantStream += blue LSB, with the early
   exit of ReadStep *)
VideoReadLoop(frames, seed, password) ==
    FoldRange(LAMBDA st, frameIdx :
        IF st.done THEN st
        ELSE LET data == frames[frameIdx + 1]
                 pixels == PixelCount(data)
                 maxThisFrame == CeilEmbeddingRate(pixels)
                 framePrng == PrngOutputs(FrameSeed(seed, frameIdx), maxThisFrame)
                 pixelIndices == GenerateIndicesPRNG(framePrng, pixels, maxThisFrame)
             IN FoldRange(LAMBDA s, p :
                    ReadStep(s, data[pixelIndices[p] * 4 + 2] % 2,
                             BytesToBitString(VideoHeader), password),
                    st, 1, Len(pixelIndices)),
        [done |-> FALSE, result |-> Null, stream |-> <<>>], 0, Len(frames) - 1)

(* VideoSteganography.decode on the extracted frames *)
VideoDecode(frames, password) ==
    LET read == VideoReadLoop(frames, SeedFor(password), password)
    IN IF read.done THEN read.result
       ELSE FinalDecode(DecodeRedundantBits(read.stream),
                        BytesToBitString(VideoHeader), password)

----------------------------------------------------------------------------
(* Inputs                                                                  *)

MaxMsgLen == 2

(* ' ', 'o' (binary 01101111, ones next to the end marker), '~' *)
MsgAlphabet == {32, 111, 126}

(* Printable-ASCII messages for the text and image codecs *)
Messages == UNION {[1..len -> MsgAlphabet] : len \in 0..MaxMsgLen}

MaxAvMsgLen == 5

(* 'hi ~o ok' *)
AvMessageBase == <<104, 105, 32, 126, 111, 32, 111, 107>>

(* Printable-ASCII messages for the audio and video codecs: the prefixes of
   AvMessageBase *)
AvMessages == {SubSeq(AvMessageBase, 1, len) : len \in 0..MaxAvMsgLen}

(* no password, "a", "b" *)
Passwords == {NoPassword, <<97>>, <<98>>}

(* Salts CryptoJS may draw *)
Salts == {0, 1}

SaltsFor(password) == IF password = NoPassword THEN {0} ELSE Salts

(* Carrier contents: all even / all odd / mixed values *)
Patterns == {"zeros", "ones", "mixed"}

(* 'The quick brown fox jumps over the lazy dog' *)
CoverBase == <<84, 104, 101, 32, 113, 117, 105, 99, 107, 32, 98, 114, 111, 119,
               110, 32, 102, 111, 120, 32, 106, 117, 109, 112, 115, 32, 111,
               118, 101, 114, 32, 116, 104, 101, 32, 108, 97, 122, 121, 32,
               100, 111, 103>>

CoverLengths == {0, 8, 12, 16, 19, 28}

(* Prefixes of CoverBase, and one cover text that already contains a marker *)
CoverTexts == {SubSeq(CoverBase, 1, len) : len \in CoverLengths}
              \cup {<<97, 98, ZERO_WIDTH_JOINER>> \o SubSeq(CoverBase, 1, 19)}

ImagePixelCounts == {8, 16, 24, 32, 56, 100}

(* RGBA bytes of an image of `pixels` pixels *)
ImageData(pixels, pattern) ==
    [i \in 0..(4 * pixels - 1) |->
        IF pattern = "zeros" THEN 0
        ELSE IF pattern = "ones" THEN 255
        ELSE (i * 37 + (i \div 4)) % 256]

AudioSampleCounts == {100, 330, 362, 363, 453}

(* Int16 samples *)
AudioSamples(n, pattern) ==
    [i \in 0..(n - 1) |->
        IF pattern = "zeros" THEN 0
        ELSE IF pattern = "ones" THEN -1
        ELSE ((i * 7919) % 65536) - 32768]

(* <<frames, width, height>>; the last shape has 33 pixels per frame, where
   ceil(33 * 0.3) = 10 and floor(33 * 0.3) = 9 differ *)
VideoShapes == {<<1, 10, 10>>, <<1, 40, 25>>, <<2, 30, 20>>, <<4, 20, 15>>,
                <<30, 11, 3>>}

VideoFrames(shape, pattern) ==
    [f \in 1..shape[1] |-> ImageData(shape[2] * shape[3], pattern)]

----------------------------------------------------------------------------
(* Codec calls.  Each variable holds one encode call and the decode call
   made on its output.  `buffer` (for the image: `data`) is the working
   buffer of encode as the call left it, by return or by throw.            *)

Idle == [pc |-> "idle"]

InitText ==
    /\ text \in {[pc |-> "ready", cover |-> c, message |-> m, password |-> p,
                  stego |-> <<>>, decodePassword |-> NoPassword, result |-> Null] :
                    c \in CoverTexts, m \in Messages, p \in Passwords}
    /\ audio = Idle /\ video = Idle /\ image = Idle
    /\ idx = Idle /\ gens = Idle /\ vote = Idle /\ cap = Idle

(* TextSteganography.encode(coverText, secretMessage, password) *)
TextEncodeCall ==
    /\ text.pc = "ready"
    /\ \E salt \in SaltsFor(text.password) :
          text' = [text EXCEPT !.pc = "encoded",
                      !.stego = TextEncode(text.cover, text.message,
                                           text.password, salt)]
    /\ UNCHANGED <<audio, video, image, idx, gens, vote, cap>>

(* TextSteganography.decode(stegoText, password) on the encoded text *)
TextDecodeCall ==
    /\ text.pc = "encoded"
    /\ \E q \in Passwords :
          text' = [text EXCEPT !.pc = "decoded", !.decodePassword = q,
                      !.result = TextDecode(text.stego, q)]
    /\ UNCHANGED <<audio, video, image, idx, gens, vote, cap>>

NextText == TextEncodeCall \/ TextDecodeCall

SpecText == InitText /\ [][NextText]_vars

InitImage ==
    /\ image \in {[pc |-> "ready", data |-> ImageData(n, pat), message |-> m,
                   password |-> p, original |-> ImageData(n, pat), error |-> "",
                   decodePassword |-> NoPassword, result |-> Null] :
                     n \in ImagePixelCounts, pat \in Patterns,
                     m \in Messages, p \in Passwords}
    /\ audio = Idle /\ video = Idle /\ text = Idle
    /\ idx = Idle /\ gens = Idle /\ vote = Idle /\ cap = Idle

(* ImageSteganography.encode(canvas, secretMessage, password) *)
ImageEncodeCall ==
    /\ image.pc = "ready"
    /\ \E salt \in SaltsFor(image.password) :
          LET enc == ImageEncode(image.data, image.message, image.password, salt)
          IN image' = [image EXCEPT
                          !.pc = IF enc.error = "" THEN "encoded" ELSE "rejected",
                          !.data = enc.data, !.error = enc.error]
    /\ UNCHANGED <<audio, video, text, idx, gens, vote, cap>>

(* ImageSteganography.decode(canvas, password) on the encoded canvas *)
ImageDecodeCall ==
    /\ image.pc = "encoded"
    /\ \E q \in Passwords :
          image' = [image EXCEPT !.pc = "decoded", !.decodePassword = q,
                       !.result = ImageDecode(image.data, q)]
    /\ UNCHANGED <<audio, video, text, idx, gens, vote, cap>>

NextImage == ImageEncodeCall \/ ImageDecodeCall

SpecImage == InitImage /\ [][NextImage]_vars

InitAudio ==
    /\ audio \in {[pc |-> "ready", samples |-> AudioSamples(n, pat), message |-> m,
                   password |-> p, buffer |-> AudioSamples(n, pat),
                   stego |-> <<>>, error |-> "",
                   decodePassword |-> NoPassword, result |-> Null] :
                     n \in AudioSampleCounts, pat \in Patterns,
                     m \in AvMessages, p \in Passwords}
    /\ video = Idle /\ text = Idle /\ image = Idle
    /\ idx = Idle /\ gens = Idle /\ vote = Idle /\ cap = Idle

(* AudioSteganography.encode(file, secretMessage, password), from the samples
   of the decoded file to the samples of the WAV file it returns *)
AudioEncodeCall ==
    /\ audio.pc = "ready"
    /\ \E salt \in SaltsFor(audio.password) :
          LET enc == AudioEncode(audio.samples, audio.message, audio.password, salt)
          IN audio' = [audio EXCEPT
                          !.pc = IF enc.error = "" THEN "encoded" ELSE "rejected",
                          !.buffer = enc.samples,
                          !.stego = IF enc.error = "" THEN enc.samples ELSE <<>>,
                          !.error = enc.error]
    /\ UNCHANGED <<video, text, image, idx, gens, vote, cap>>

(* AudioSteganography.decode(file, password) on the encoded samples *)
AudioDecodeCall ==
    /\ audio.pc = "encoded"
    /\ \E q \in Passwords :
          audio' = [audio EXCEPT !.pc = "decoded", !.decodePassword = q,
                       !.result = AudioDecode(audio.stego, q)]
    /\ UNCHANGED <<video, text, image, idx, gens, vote, cap>>

NextAudio == AudioEncodeCall \/ AudioDecodeCall

SpecAudio == InitAudio /\ [][NextAudio]_vars

InitVideo ==
    /\ video \in {[pc |-> "ready", frames |-> VideoFrames(sh, pat), width |-> sh[2],
                   height |-> sh[3], message |-> m, password |-> p,
                   buffer |-> VideoFrames(sh, pat), stego |-> <<>>, bitIndex |-> 0, error |-> "",
                   decodePassword |-> NoPassword, result |-> Null] :
                     sh \in VideoShapes, pat \in Patterns,
                     m \in AvMessages, p \in Passwords}
    /\ audio = Idle /\ text = Idle /\ image = Idle
    /\ idx = Idle /\ gens = Idle /\ vote = Idle /\ cap = Idle

(* VideoSteganography.encode(file, secretMessage, password), from the frames
   videoToFrames extracts to the frames handed to framesToVideo *)
VideoEncodeCall ==
    /\ video.pc = "ready"
    /\ \E salt \in SaltsFor(video.password) :
          LET enc == VideoEncode(video.frames, video.width, video.height,
                                 video.message, video.password, salt)
          IN video' = [video EXCEPT
                          !.pc = IF enc.error = "" THEN "encoded" ELSE "rejected",
                          !.buffer = enc.frames,
                          !.stego = IF enc.error = "" THEN enc.frames ELSE <<>>,
                          !.bitIndex = enc.bitIndex,
                          !.error = enc.error]
    /\ UNCHANGED <<audio, text, image, idx, gens, vote, cap>>

(* VideoSteganography.decode(file, password) on the encoded frames *)
VideoDecodeCall ==
    /\ video.pc = "encoded"
    /\ \E q \in Passwords :
          video' = [video EXCEPT !.pc = "decoded", !.decodePassword = q,
                       !.result = VideoDecode(video.stego, q)]
    /\ UNCHANGED <<audio, text, image, idx, gens, vote, cap>>

NextVideo == VideoEncodeCall \/ VideoDecodeCall

SpecVideo == InitVideo /\ [][NextVideo]_vars

(* All four codecs: each behaviour is one encode call of one codec followed
   by one decode call *)
InitCodecs == InitText \/ InitImage \/ InitAudio \/ InitVideo

NextCodecs == NextText \/ NextImage \/ NextAudio \/ NextVideo

SpecCodecs == InitCodecs /\ [][NextCodecs]_vars

----------------------------------------------------------------------------
(* Round trips (C1 - C5)                                                   *)

(* C1: audio round trip without password: for every sample array and every
   printable-ASCII message m with len(m) <= calculateCapacity(samples),
   decode of the samples written by encode(samples, m) returns exactly m. *)
C1_AudioRoundTrip ==
    (/\ audio.pc = "decoded"
     /\ audio.password = NoPassword /\ audio.decodePassword = NoPassword
     /\ Len(audio.message) <= AudioCalculateCapacity(SampleCount(audio.samples)))
    => audio.result = Str(audio.message)

(* C2: video round trip without password: for every sequence of equally sized
   frames and every printable-ASCII message m with
   len(m) <= calculateCapacity(frames), decode of the frames modified by
   encode(frames, m) returns exactly m, whether the redundant bits fit in the
   first frame or span several frames. *)
C2_VideoRoundTrip ==
    (/\ video.pc = "decoded"
     /\ video.password = NoPassword /\ video.decodePassword = NoPassword
     /\ Len(video.message) <= VideoCalculateCapacity(Len(video.frames),
                                                     video.width, video.height))
    => video.result = Str(video.message)

(* C3: text round trip without password: for every cover text without marker
   characters and with at least (8*len(m)+16)/2 characters, and every
   printable-ASCII message m, decode(encode(cover, m)) returns exactly m, and
   the end marker is found at bit offset 8*len(m) of the extracted bits. *)
C3_TextRoundTrip ==
    (/\ text.pc = "decoded"
     /\ text.password = NoPassword /\ text.decodePassword = NoPassword
     /\ StripMarkers(text.cover) = text.cover
     /\ 2 * Len(text.cover) >= 8 * Len(text.message) + 16)
    => /\ text.result = Str(text.message)
       /\ IndexOf(MarkersToBinary(MatchMarkers(text.stego)), EndMarker)
             = 8 * Len(text.message)

(* A message ending in 'o' (four ones right before the end marker) came back *)
C3_Witness ==
    /\ text.pc = "decoded"
    /\ text.password = NoPassword /\ text.decodePassword = NoPassword
    /\ StripMarkers(text.cover) = text.cover
    /\ 2 * Len(text.cover) >= 8 * Len(text.message) + 16
    /\ Len(text.message) = 2 /\ text.message[2] = 111
    /\ text.result = Str(text.message)

(* C4: image round trip without password: for every RGBA buffer with P pixels
   and every printable-ASCII message m with 8*len(m)+16 <= P, encode accepts m
   and decode of the written buffer returns exactly m, whatever the red-channel
   LSBs of the buffer were before. *)
C4_ImageRoundTrip ==
    (/\ image.pc \in {"rejected", "decoded"}
     /\ image.password = NoPassword
     /\ 8 * Len(image.message) + 16 <= PixelCount(image.original))
    => /\ image.pc = "decoded"
       /\ image.decodePassword = NoPassword => image.result = Str(image.message)

(* A non-empty message came back from a buffer whose red LSBs were all 1 *)
C4_Witness ==
    /\ image.pc = "decoded"
    /\ image.password = NoPassword /\ image.decodePassword = NoPassword
    /\ image.message # <<>>
    /\ \A i \in 0..(PixelCount(image.original) - 1) : image.original[4 * i] % 2 = 1
    /\ image.result = Str(image.message)

(* The password round trip of one codec call c *)
PasswordRoundTrip(c) ==
    (c.pc = "decoded" /\ c.password # NoPassword)
    => /\ c.decodePassword = c.password => c.result = Str(c.message)
       /\ c.decodePassword \notin {c.password, NoPassword} => c.result = Null

(* C5: password round trip, for each codec, with the cipher as an external
   primitive whose decrypt fails on a non-matching password:
   decode(encode(carrier, m, p), p) returns m and decode(encode(carrier, m, p), q)
   returns null for every password q different from p. *)
C5_PasswordRoundTrip ==
    /\ PasswordRoundTrip(text)
    /\ PasswordRoundTrip(image)
    /\ PasswordRoundTrip(audio)
    /\ PasswordRoundTrip(video)

----------------------------------------------------------------------------
(* Index generator called on its own                                       *)

MaxUniverse == 4

(* Values prng() can return, as numerators over 2^32: 0, 1/3, 1/2 and the
   largest value below 1 *)
PrngValues == {<<0, 0>>, <<21845, 21845>>, <<32768, 0>>, <<65535, 65535>>}

(* A call that throws makes no call of prng *)
PrngStreams(length, needed) ==
    IF needed > length THEN {<<>>}
    ELSE [1..needed -> PrngValues] \cup {PrngOutputs(DefaultSeed, needed)}

InitIdx ==
    /\ idx \in UNION {
          {[pc |-> "ready", prng |-> pr, length |-> l, needed |-> k,
            result |-> <<>>, error |-> ""] : pr \in PrngStreams(l, k)} :
          l \in 0..MaxUniverse, k \in 0..MaxUniverse}
    /\ audio = Idle /\ video = Idle /\ text = Idle /\ image = Idle
    /\ gens = Idle /\ vote = Idle /\ cap = Idle

(* generateIndicesPRNG(prng, length, needed) *)
GenerateIndicesCall ==
    /\ idx.pc = "ready"
    /\ LET out == GenerateIndices(idx.prng, idx.length, idx.needed)
       IN idx' = IF out.kind = "throw"
                 THEN [idx EXCEPT !.pc = "thrown", !.error = out.error]
                 ELSE [idx EXCEPT !.pc = "done", !.result = out.value]
    /\ UNCHANGED <<audio, video, text, image, gens, vote, cap>>

NextIdx == GenerateIndicesCall

SpecIdx == InitIdx /\ [][NextIdx]_vars

(* C6: generateIndicesPRNG(prng, length, needed) with needed <= length returns
   exactly `needed` integers, each in [0, length), no value repeated, for
   every sequence of PRNG outputs in [0, 1). *)
C6_IndicesDistinct ==
    idx.pc = "done"
    => /\ Len(idx.result) = idx.needed
       /\ \A k \in 1..Len(idx.result) : idx.result[k] \in 0..(idx.length - 1)
       /\ \A k, l \in 1..Len(idx.result) : idx.result[k] = idx.result[l] => k = l

(* All of a universe of at least 3 was asked for and every draw returned 0 *)
C6_Witness ==
    /\ idx.pc = "done"
    /\ idx.needed = idx.length /\ idx.length >= 3
    /\ \A k \in 1..idx.needed : idx.prng[k] = <<0, 0>>

----------------------------------------------------------------------------
(* Two seededPRNG closures drawn from in any order                         *)

MaxDraws == 3

Generators == {1, 2}

GenSeeds == {DefaultSeed, FrameSeed(DefaultSeed, 0), Sha256Hex(<<97>>)}

(* `let state = 0` is local to each call of seededPRNG: the closure returned
   by the g-th call reads and writes its own cell *)
StateCellShared(g) == 1

StateCell(g) == g

InitPrng ==
    /\ gens = [pc |-> "running",
               cells |-> [g \in Generators |-> <<0, 0>>],
               seed |-> [g \in Generators |-> <<>>],
               live |-> [g \in Generators |-> FALSE],
               outs |-> [g \in Generators |-> <<>>],
               log |-> <<>>]
    /\ audio = Idle /\ video = Idle /\ text = Idle /\ image = Idle
    /\ idx = Idle /\ vote = Idle /\ cap = Idle

(* const prng = seededPRNG(seed) *)
CreateGenerator(g) ==
    /\ ~gens.live[g]
    /\ \E seed \in GenSeeds :
          gens' = [gens EXCEPT !.cells[StateCell(g)] = SeededPRNG(seed),
                               !.seed[g] = seed, !.live[g] = TRUE]
    /\ UNCHANGED <<audio, video, text, image, idx, vote, cap>>

(* prng(): one call of the closure *)
Draw(g) ==
    /\ gens.live[g]
    /\ Len(gens.outs[g]) < MaxDraws
    /\ LET nx == LcgStep(gens.cells[StateCell(g)])
       IN gens' = [gens EXCEPT !.cells[StateCell(g)] = nx,
                               !.outs[g] = Append(@, nx),
                               !.log = Append(@, g)]
    /\ UNCHANGED <<audio, video, text, image, idx, vote, cap>>

NextPrng == \E g \in Generators : CreateGenerator(g) \/ Draw(g)

SpecPrng == InitPrng /\ [][NextPrng]_vars

(* C7: each seededPRNG(seed) closure holds its own state: under any
   interleaving of draws from two generators each yields the output sequence
   it yields when run alone, and index generation from two generators with
   identical (seed, universeSize, count) gives identical sequences. *)
C7_GeneratorsIndependent ==
    gens.pc = "running"
    => /\ \A g \in Generators :
             gens.live[g] =>
                gens.outs[g] = PrngOutputs(gens.seed[g], Len(gens.outs[g]))
       /\ (/\ gens.live[1] /\ gens.live[2]
           /\ gens.seed[1] = gens.seed[2]
           /\ Len(gens.outs[1]) = Len(gens.outs[2]))
          => GenerateIndicesPRNG(gens.outs[1], MaxDraws + 2, Len(gens.outs[1]))
             = GenerateIndicesPRNG(gens.outs[2], MaxDraws + 2, Len(gens.outs[2]))

(* Two generators with different seeds were drawn from alternately *)
C7_Witness ==
    /\ gens.pc = "running"
    /\ gens.live[1] /\ gens.live[2]
    /\ gens.seed[1] # gens.seed[2]
    /\ gens.log = <<1, 2, 1, 2>>

----------------------------------------------------------------------------
(* Triple redundancy over a channel that flips at most one bit per triplet *)

MaxBits == 3

BitStrings == UNION {[1..len -> {0, 1}] : len \in 0..MaxBits}

InitVote ==
    /\ vote \in {[pc |-> "ready", bits |-> b, redundant |-> <<>>,
                  decoded |-> <<>>] : b \in BitStrings}
    /\ audio = Idle /\ video = Idle /\ text = Idle /\ image = Idle
    /\ idx = Idle /\ gens = Idle /\ cap = Idle

(* redundantBinary = fullBinary.split('').flatMap(bit => [bit, bit, bit]) *)
Triplicate ==
    /\ vote.pc = "ready"
    /\ vote' = [vote EXCEPT !.pc = "tripled",
                            !.redundant = ApplyRedundancy(vote.bits)]
    /\ UNCHANGED <<audio, video, text, image, idx, gens, cap>>

(* The carrier is altered between encode and decode: in triplet t the bit
   number flips[t] is inverted (none when flips[t] = 0) *)
Corrupt ==
    /\ vote.pc = "tripled"
    /\ \E flips \in [1..Len(vote.bits) -> 0..3] :
          vote' = [vote EXCEPT !.pc = "received",
                      !.redundant = [k \in 1..Len(vote.redundant) |->
                          IF flips[(k + 2) \div 3] = ((k - 1) % 3) + 1
                          THEN 1 - vote.redundant[k]
                          ELSE vote.redundant[k]]]
    /\ UNCHANGED <<audio, video, text, image, idx, gens, cap>>

(* decodeRedundantBits(redundantStream) *)
Collapse ==
    /\ vote.pc = "received"
    /\ vote' = [vote EXCEPT !.pc = "collapsed",
                            !.decoded = DecodeRedundantBits(vote.redundant)]
    /\ UNCHANGED <<audio, video, text, image, idx, gens, cap>>

NextVote == Triplicate \/ Corrupt \/ Collapse

SpecVote == InitVote /\ [][NextVote]_vars

(* C8: for every bit string b, tripling each bit, flipping at most one bit in
   each triplet and applying decodeRedundantBits yields b exactly. *)
C8_MajorityCorrects ==
    vote.pc = "collapsed" => vote.decoded = vote.bits

(* Every triplet of a string of two or more bits had a bit flipped *)
C8_Witness ==
    /\ vote.pc = "collapsed"
    /\ Len(vote.bits) >= 2
    /\ \A t \in 1..Len(vote.bits) :
          SubSeq(vote.redundant, 3 * t - 2, 3 * t) # <<vote.bits[t], vote.bits[t], vote.bits[t]>>
    /\ vote.decoded = vote.bits

----------------------------------------------------------------------------
(* Capacity                                                                *)

MaxSamples == 400

MaxFrames == 3

MaxWidth == 20

VideoHeights == {1, 20}

InitCapacity ==
    /\ cap \in {[pc |-> "ready", kind |-> "audio", n |-> n, frames |-> 0,
                 width |-> 0, height |-> 0, result |-> 0] : n \in 0..MaxSamples}
          \cup {[pc |-> "ready", kind |-> "video", n |-> 0, frames |-> f,
                 width |-> w, height |-> h, result |-> 0] :
                   f \in 0..MaxFrames, w \in 1..MaxWidth, h \in VideoHeights}
    /\ audio = Idle /\ video = Idle /\ text = Idle /\ image = Idle
    /\ idx = Idle /\ gens = Idle /\ vote = Idle

(* AudioSteganography.calculateCapacity(file) *)
AudioCalculateCapacityCall ==
    /\ cap.pc = "ready" /\ cap.kind = "audio"
    /\ cap' = [cap EXCEPT !.pc = "done", !.result = AudioCalculateCapacity(cap.n)]
    /\ UNCHANGED <<audio, video, text, image, idx, gens, vote>>

(* VideoSteganography.calculateCapacity(file) *)
VideoCalculateCapacityCall ==
    /\ cap.pc = "ready" /\ cap.kind = "video"
    /\ cap' = [cap EXCEPT !.pc = "done",
                  !.result = VideoCalculateCapacity(cap.frames, cap.width, cap.height)]
    /\ UNCHANGED <<audio, video, text, image, idx, gens, vote>>

NextCapacity == AudioCalculateCapacityCall \/ VideoCalculateCapacityCall

SpecCapacity == InitCapacity /\ [][NextCapacity]_vars

(* The integer q with q <= num / den < q + 1 *)
FloorOfQuotient(num, den) ==
    CHOOSE q \in 0..num : den * q <= num /\ num < den * (q + 1)

(* floor(floor(units * fraction) / 3 / 8) - 11 with fraction = fnum / fden *)
CapacityFormula(units, fnum, fden) ==
    FloorOfQuotient(FloorOfQuotient(fnum * units, fden), 3 * 8) - 11

(* The formula of the kind of carrier measured in cap *)
CapFormulaValue ==
    IF cap.kind = "audio" THEN CapacityFormula(cap.n, 8, 10)
    ELSE CapacityFormula(cap.frames * cap.width * cap.height, 3, 10)

(* C9 as claimed: for every sample array, encode without password accepts a
   message of exactly calculateCapacity(samples) bytes and rejects one of
   calculateCapacity(samples) + 1 bytes with 'Message too large'. *)
C9_Original ==
    (audio.pc \in {"encoded", "rejected", "decoded"} /\ audio.password = NoPassword)
    => LET capacity == AudioCalculateCapacity(SampleCount(audio.samples))
       IN /\ Len(audio.message) = capacity => audio.pc # "rejected"
          /\ Len(audio.message) = capacity + 1
                => /\ audio.pc = "rejected"
                   /\ audio.error = "Message too large for this audio file"

(* C9 amended: the same for every sample array of at least 330 samples (the
   least count whose floor(0.8 * n) holds the 264 redundant bits of magic and
   length). *)
C9_CapacityBoundary ==
    (/\ audio.pc \in {"encoded", "rejected", "decoded"}
     /\ audio.password = NoPassword
     /\ SampleCount(audio.samples) >= 330)
    => LET capacity == AudioCalculateCapacity(SampleCount(audio.samples))
       IN /\ Len(audio.message) = capacity => audio.pc # "rejected"
          /\ Len(audio.message) = capacity + 1
                => /\ audio.pc = "rejected"
                   /\ audio.error = "Message too large for this audio file"

(* A message of exactly the (positive) capacity was accepted *)
C9_Witness ==
    /\ audio.pc = "encoded"
    /\ audio.password = NoPassword
    /\ SampleCount(audio.samples) >= 330
    /\ Len(audio.message) >= 1
    /\ Len(audio.message) = AudioCalculateCapacity(SampleCount(audio.samples))

(* C10 as claimed: calculateCapacity returns floor(floor(n*0.8)/3/8) - 11 for
   audio and floor(floor(totalPixels*0.3)/3/8) - 11 for video. *)
C10_Original ==
    cap.pc = "done" => cap.result = CapFormulaValue

(* C10 amended: calculateCapacity returns that value when it is positive and
   0 otherwise. *)
C10_CapacityFormula ==
    cap.pc = "done" => cap.result = Max(0, CapFormulaValue)

(* A carrier too small for the header: the formula is negative, the result 0 *)
C10_Witness ==
    /\ cap.pc = "done"
    /\ cap.kind = "video" /\ cap.frames >= 1
    /\ CapFormulaValue < 0
    /\ cap.result = 0

----------------------------------------------------------------------------
(* Pre-validation and failures of encode (C11 - C13)                       *)

(* C11: pre-validation is sound.  If message.length <= calculateCapacity(carrier),
   the check handleEncode makes on a non-blank message before it calls encode,
   then encode's own capacity check passes and encode does not throw 'Message
   too large', for every carrier, message and optional password. *)
C11_PreValidationSound ==
    /\ (/\ audio.pc \in {"encoded", "rejected", "decoded"}
        /\ audio.message # <<>>
        /\ Len(audio.message) <= AudioCalculateCapacity(SampleCount(audio.samples)))
       => audio.pc # "rejected"
    /\ (/\ video.pc \in {"encoded", "rejected", "decoded"}
        /\ video.message # <<>>
        /\ Len(video.message) <= VideoCalculateCapacity(Len(video.frames),
                                                        video.width, video.height))
       => video.pc # "rejected"

(* C12: no partial embedding.  Whenever an encode fails because the framed
   message does not fit, the carrier buffer is bit for bit what it was when
   encode was called: the error is thrown before any unit is written.
   (TextSteganography.encode has no such failure.) *)
C12_NoPartialEmbedding ==
    /\ image.pc = "rejected" => image.data = image.original
    /\ audio.pc = "rejected" => audio.buffer = audio.samples
    /\ video.pc = "rejected" => video.buffer = video.frames
    /\ text.pc # "rejected"

(* An image whose red LSBs are all 1 was too small for a non-empty message *)
C12_Witness ==
    /\ image.pc = "rejected"
    /\ image.error = "Message too large for this image"
    /\ image.message # <<>>
    /\ image.original[0] % 2 = 1
    /\ image.data = image.original

(* C13: TextSteganography.encode fails with CapacityExceeded whenever
   ceil(frameBitLength / 2) > coverText.length, where frameBitLength =
   8 * len(payload) + 16: a call that returned a stego text had room for the
   whole frame and the text carries one marker for every pair of frame bits. *)
C13_TextCapacityExceeded ==
    text.pc \in {"encoded", "decoded"}
    => LET payload == IF text.password # NoPassword
                      THEN Encrypt(text.message, text.password, 0)
                      ELSE text.message
           frameBitLength == 8 * Len(payload) + 16
       IN /\ (frameBitLength + 1) \div 2 <= Len(text.cover)
          /\ Len(MatchMarkers(text.stego)) - Len(MatchMarkers(text.cover))
                = frameBitLength \div 2

----------------------------------------------------------------------------
(* The media collaborators behind the file-level entry points: FFmpeg's
   in-memory file system (one per class, created once by initFFmpeg and kept
   for all later calls) and the audio decoder.                              *)

(* The frame files of the file system: a function from the number in
   frame_<number>.png to the content of that file, defined for the files
   that exist.  Just loaded, it holds none. *)
EmptyFs == [k \in {} |-> <<>>]

(* ffmpeg.run('-i', input, ..., 'frame_%03d.png') on a video whose stream
   gives the frames `file`: writes frame_001.png .. frame_N.png over files of
   those names and touches no other file *)
FfmpegExtract(fs, file) ==
    [k \in (DOMAIN fs) \cup (1..Len(file)) |->
        IF k \in 1..Len(file) THEN file[k] ELSE fs[k]]

(* The files start, start + 1, ... read until readFile fails *)
ReadFramesFrom(fs, start) ==
    LET count == Cardinality({j \in DOMAIN fs :
                     j >= start /\ \A k \in start..j : k \in DOMAIN fs})
    IN [k \in 1..count |-> fs[start + k - 1]]

(* VideoSteganography.videoToFrames: the file system afterwards, the frames
   returned and the error thrown ("" if none) *)
VideoToFrames(fs, file) ==
    LET written == FfmpegExtract(fs, file)
        frames == ReadFramesFrom(written, 1)
    IN [fs |-> written, frames |-> frames,
        error |-> IF Len(frames) = 0 THEN "No frames extracted" ELSE ""]

(* VideoSteganography.framesToVideo: writes frame_000.png .. frame_(n-1).png,
   then ffmpeg assembles frame_%03d.png from frame_000.png on into the output
   (lossless) *)
FramesToVideo(fs, frames) ==
    LET written == [k \in (DOMAIN fs) \cup (0..(Len(frames) - 1)) |->
                       IF k \in 0..(Len(frames) - 1) THEN frames[k + 1] ELSE fs[k]]
    IN [fs |-> written, blob |-> ReadFramesFrom(written, 0)]

(* '-vf scale=640:480': every extracted frame has the same size, here
   <<width, height>> of the model's frames *)
ExtractShape == <<20, 15>>

(* VideoSteganography.calculateCapacity(file) *)
VideoCalculateCapacityFile(fs, file) ==
    LET ex == VideoToFrames(fs, file)
    IN [fs |-> ex.fs, frames |-> ex.frames,
        result |-> IF ex.error # "" THEN 0
                   ELSE VideoCalculateCapacity(Len(ex.frames), ExtractShape[1],
                                               ExtractShape[2])]

(* VideoSteganography.encode(file, secretMessage, password) *)
VideoEncodeFile(fs, file, secretMessage, password, salt) ==
    LET ex == VideoToFrames(fs, file)
        enc == VideoEncode(ex.frames, ExtractShape[1], ExtractShape[2],
                           secretMessage, password, salt)
        out == FramesToVideo(ex.fs, enc.frames)
    IN IF ex.error # ""
       THEN [fs |-> ex.fs, frames |-> ex.frames, error |-> ex.error, blob |-> <<>>]
       ELSE IF enc.error # ""
       THEN [fs |-> ex.fs, frames |-> ex.frames, error |-> enc.error, blob |-> <<>>]
       ELSE [fs |-> out.fs, frames |-> ex.frames, error |-> "", blob |-> out.blob]

(* VideoSteganography.decode(file, password): everything from videoToFrames
   on is inside try { } catch { return null } *)
VideoDecodeFile(fs, file, password) ==
    LET ex == VideoToFrames(fs, file)
    IN [fs |-> ex.fs, frames |-> ex.frames,
        result |-> CatchAll(IF ex.error # "" THEN Thrown(ex.error)
                            ELSE VideoDecode(ex.frames, password))]

(* An audio file: the samples it decodes to, or one that neither
   decodeAudioData nor the FFmpeg fallback can decode *)
AudioFile(samples) == [decodable |-> TRUE, samples |-> samples]

UndecodableAudioFile == [decodable |-> FALSE, samples |-> <<>>]

(* AudioSteganography.decode(file, password): fileToAudioBuffer rejects for an
   undecodable file, inside try { } catch { return null } *)
AudioDecodeFile(file, password) ==
    CatchAll(IF ~file.decodable THEN Thrown("Unable to decode audio data")
             ELSE AudioDecode(file.samples, password))

----------------------------------------------------------------------------
(* decode called on carriers of any content: never encoded ones, ones whose
   hidden channel happens to hold a frame, a malformed or truncated frame,
   and media files the collaborators cannot read.                          *)

(* Payloads of the frames found in a channel: '', 'o', a ciphertext of 'o'
   under the passphrase "a", and 'zz', which is no ciphertext *)
ChannelPayloads == {<<>>, <<111>>, Encrypt(<<111>>, <<97>>, 0), <<122, 122>>}

(* Marker-terminated frames, and one cut before its end marker *)
MarkedFrames ==
    {StringToBinary(m) \o EndMarker : m \in ChannelPayloads}
    \cup {StringToBinary(<<111>>)}

(* Length-prefixed frames, one whose length field announces 5 bytes that do
   not follow, and one whose length field is all ones *)
PrefixedFrames(header) ==
    {FullBinary(header, m) : m \in ChannelPayloads}
    \cup {BytesToBitString(header) \o PadStart(ToBin(5), 32),
          BytesToBitString(header) \o [k \in 1..32 |-> 1]}

(* A text made of the markers that spell `bits` *)
TextOfBits(bits) ==
    [k \in 1..(Len(bits) \div 2) |-> MarkerForPair(<<bits[2 * k - 1], bits[2 * k]>>)]

DecodeTexts == CoverTexts \cup {TextOfBits(b) : b \in MarkedFrames}

DecodeImages ==
    {ImageData(n, pat) : n \in ImagePixelCounts, pat \in Patterns}
    \cup {ImageEmbedLoop(ImageData(56, "zeros"), b) : b \in MarkedFrames}

(* Samples whose LSBs, at the first positions decode reads under `password`,
   spell the tripled `bits` *)
AudioSamplesWith(n, password, bits) ==
    LET capacityBits == FloorEmbeddingFraction(n)
        indices == GenerateIndicesPRNG(PrngOutputs(SeedFor(password), capacityBits),
                                       n, capacityBits)
    IN AudioEmbedLoop(AudioSamples(n, "zeros"), indices, ApplyRedundancy(bits))

(* Sample counts whose floor(0.8 * n) positions hold 56 and 58 voted bits,
   with the bits that follow the 56 bits of the magic: at most 2 of the 32
   bits of the length *)
TruncatedAudio == {<<210, <<>>>>, <<220, <<>>>>, <<220, <<1>>>>}

DecodeAudioFiles ==
    {UndecodableAudioFile}
    \cup {AudioFile(AudioSamples(n, pat)) : n \in {100, 330, 363}, pat \in Patterns}
    \cup {AudioFile(AudioSamplesWith(453, p, b)) :
             p \in {NoPassword, <<97>>}, b \in PrefixedFrames(AudioHeader)}
    \cup {AudioFile(AudioSamplesWith(t[1], NoPassword,
                                     BytesToBitString(AudioHeader) \o t[2])) :
             t \in TruncatedAudio}

(* Videos as the frames FFmpeg extracts from them; none from the first *)
(* One frame of 600 pixels, read at ceil(600 * 0.3) = 180 positions (60 voted
   bits), whose blue LSBs at those positions spell the tripled `bits` *)
VideoFramesWith(password, bits) ==
    VideoEmbedLoop(VideoFrames(<<1, 30, 20>>, "zeros"),
                   ApplyRedundancy(bits \o [k \in 1..(60 - Len(bits)) |-> 0]),
                   SeedFor(password)).frames

DecodeVideoFiles ==
    {<<>>} \cup {VideoFrames(sh, pat) : sh \in VideoShapes, pat \in Patterns}
    \cup {VideoFramesWith(NoPassword, BytesToBitString(VideoHeader) \o b) :
             b \in {<<>>, <<0, 0, 0, 1>>}}

InitDecode ==
    /\ \/ /\ text \in {[pc |-> "carrier", stego |-> t, decodePassword |-> NoPassword,
                        result |-> Null] : t \in DecodeTexts}
          /\ image = Idle /\ audio = Idle /\ video = Idle
       \/ /\ image \in {[pc |-> "carrier", data |-> d, decodePassword |-> NoPassword,
                         result |-> Null] : d \in DecodeImages}
          /\ text = Idle /\ audio = Idle /\ video = Idle
       \/ /\ audio \in {[pc |-> "carrier", file |-> f, decodePassword |-> NoPassword,
                         result |-> Null] : f \in DecodeAudioFiles}
          /\ text = Idle /\ image = Idle /\ video = Idle
       \/ /\ video \in {[pc |-> "carrier", file |-> f, decodePassword |-> NoPassword,
                         result |-> Null] : f \in DecodeVideoFiles}
          /\ text = Idle /\ image = Idle /\ audio = Idle
    /\ idx = Idle /\ gens = Idle /\ vote = Idle /\ cap = Idle

(* TextSteganography.decode(stegoText, password) *)
TextDecodeCarrier ==
    /\ text.pc = "carrier"
    /\ \E q \in Passwords :
          text' = [text EXCEPT !.pc = "scanned", !.decodePassword = q,
                      !.result = TextDecode(text.stego, q)]
    /\ UNCHANGED <<audio, video, image, idx, gens, vote, cap>>

(* ImageSteganography.decode(canvas, password) *)
ImageDecodeCarrier ==
    /\ image.pc = "carrier"
    /\ \E q \in Passwords :
          image' = [image EXCEPT !.pc = "scanned", !.decodePassword = q,
                       !.result = ImageDecode(image.data, q)]
    /\ UNCHANGED <<audio, video, text, idx, gens, vote, cap>>

(* AudioSteganography.decode(file, password) *)
AudioDecodeCarrier ==
    /\ audio.pc = "carrier"
    /\ \E q \in Passwords :
          audio' = [audio EXCEPT !.pc = "scanned", !.decodePassword = q,
                       !.result = AudioDecodeFile(audio.file, q)]
    /\ UNCHANGED <<video, text, image, idx, gens, vote, cap>>

(* VideoSteganography.decode(file, password), FFmpeg just loaded *)
VideoDecodeCarrier ==
    /\ video.pc = "carrier"
    /\ \E q \in Passwords :
          video' = [video EXCEPT !.pc = "scanned", !.decodePassword = q,
                       !.result = VideoDecodeFile(EmptyFs, video.file, q).result]
    /\ UNCHANGED <<audio, text, image, idx, gens, vote, cap>>

NextDecode ==
    TextDecodeCarrier \/ ImageDecodeCarrier \/ AudioDecodeCarrier \/ VideoDecodeCarrier

SpecDecode == InitDecode /\ [][NextDecode]_vars

----------------------------------------------------------------------------
(* Outcomes of decode (C14 - C17)                                          *)

(* The hidden channel of each carrier as decode reads it *)
TextChannel(stegoText) == MarkersToBinary(MatchMarkers(stegoText))

RedLsbs(data) == [k \in 1..PixelCount(data) |-> data[4 * (k - 1)] % 2]

AudioChannel(samples, password) ==
    LET n == SampleCount(samples)
        capacityBits == FloorEmbeddingFraction(n)
        indices == GenerateIndicesPRNG(PrngOutputs(SeedFor(password), capacityBits),
                                       n, capacityBits)
    IN DecodeRedundantBits([k \in 1..capacityBits |-> samples[indices[k]] % 2])

VideoChannel(frames, password) ==
    DecodeRedundantBits(
        FoldRange(LAMBDA stream, f :
            LET pixels == PixelCount(frames[f])
                count == CeilEmbeddingRate(pixels)
                indices == GenerateIndicesPRNG(
                               PrngOutputs(FrameSeed(SeedFor(password), f - 1), count),
                               pixels, count)
            IN stream \o [k \in 1..count |-> frames[f][indices[k] * 4 + 2] % 2],
            <<>>, 1, Len(frames)))

(* C14 as claimed: decode of a carrier that was never passed through encode
   returns null, whatever the carrier holds. *)
C14_Original ==
    /\ text.pc = "scanned" => text.result = Null
    /\ image.pc = "scanned" => image.result = Null
    /\ audio.pc = "scanned" => audio.result = Null
    /\ video.pc = "scanned" => video.result = Null

(* C14 amended: decode of a carrier that was never passed through encode
   returns null whenever the channel decode reads holds no end marker (the
   markers of a text, the red LSBs of an image) or no magic header (the
   majority-voted LSBs at the positions generated under the decode password,
   for audio samples and for video frames). *)
C14_NoMessageDetection ==
    /\ (text.pc = "scanned" /\ IndexOf(TextChannel(text.stego), EndMarker) = -1)
       => text.result = Null
    /\ (image.pc = "scanned" /\ IndexOf(RedLsbs(image.data), EndMarker) = -1)
       => image.result = Null
    /\ (/\ audio.pc = "scanned" /\ audio.file.decodable
        /\ IndexOf(AudioChannel(audio.file.samples, audio.decodePassword),
                   BytesToBitString(AudioHeader)) = -1)
       => audio.result = Null
    /\ (/\ video.pc = "scanned"
        /\ IndexOf(VideoChannel(video.file, video.decodePassword),
                   BytesToBitString(VideoHeader)) = -1)
       => video.result = Null

(* An image with both values among its red LSBs, and no end marker, was
   scanned without a password *)
C14_Witness ==
    /\ image.pc = "scanned"
    /\ image.decodePassword = NoPassword
    /\ \E i, j \in 1..PixelCount(image.data) :
          RedLsbs(image.data)[i] # RedLsbs(image.data)[j]
    /\ IndexOf(RedLsbs(image.data), EndMarker) = -1
    /\ image.result = Null

(* C16: each codec's decode entry point never throws: for any carrier
   content, any malformed or truncated frame, any cipher failure and any
   failure of the media collaborator, decode returns a string or null. *)
C16_DecodeNeverThrows ==
    /\ text.pc = "scanned" => text.result.kind \in {"string", "null"}
    /\ image.pc = "scanned" => image.result.kind \in {"string", "null"}
    /\ audio.pc = "scanned" => audio.result.kind \in {"string", "null"}
    /\ video.pc = "scanned" => video.result.kind \in {"string", "null"}

(* decode was called with a password on a video from which no frame could be
   extracted *)
C16_Witness ==
    /\ video.pc = "scanned"
    /\ video.file = <<>>
    /\ video.decodePassword # NoPassword
    /\ video.result = Null

(* C17: when the media collaborator fails during AudioSteganography.decode or
   VideoSteganography.decode (fileToAudioBuffer or videoToFrames throws), the
   caller observes an outcome other than NotFound (null). *)
C17_CollaboratorFailureDistinct ==
    /\ (audio.pc = "scanned" /\ ~audio.file.decodable) => audio.result # Null
    /\ (video.pc = "scanned" /\ VideoToFrames(EmptyFs, video.file).error # "")
       => video.result # Null

(* What decode may return for a call made with the password of encode *)
MessageOrNull(c) ==
    (c.pc = "decoded" /\ c.decodePassword = c.password)
    => c.result \in {Null, Str(c.message)}

(* C15: decode never yields a garbled message: for every codec, carrier and
   message m, decode applied to the output of encode(carrier, m) returns m or
   null, never another string. *)
C15_NeverGarbled ==
    /\ MessageOrNull(text)
    /\ MessageOrNull(image)
    /\ MessageOrNull(audio)
    /\ MessageOrNull(video)

----------------------------------------------------------------------------
(* Two runs of encode on the same carrier, message and password             *)

(* The artifact of one run: what encode returns, or the error it throws *)
TextArtifact(c, salt) ==
    [error |-> "", out |-> TextEncode(c.cover, c.message, c.password, salt)]

ImageArtifact(c, salt) ==
    LET enc == ImageEncode(c.data, c.message, c.password, salt)
    IN [error |-> enc.error, out |-> enc.data]

AudioArtifact(c, salt) ==
    LET enc == AudioEncode(c.samples, c.message, c.password, salt)
    IN [error |-> enc.error, out |-> enc.samples]

VideoArtifact(c, salt) ==
    LET enc == VideoEncode(c.frames, c.width, c.height, c.message, c.password, salt)
    IN [error |-> enc.error, out |-> enc.frames]

NoArtifact == [error |-> "", out |-> <<>>]

(* Carriers of the two-run calls *)
TwiceCovers == {SubSeq(CoverBase, 1, len) : len \in {19, 43}}

TwiceImages == {ImageData(n, pat) : n \in {56, 100}, pat \in Patterns}

TwiceSamples == {AudioSamples(n, pat) : n \in {100, 453}, pat \in {"zeros", "mixed"}}

TwiceShapes == {<<1, 40, 25>>, <<4, 20, 15>>}

InitTwice ==
    /\ \/ /\ text \in {[pc |-> "ready", cover |-> c, message |-> m, password |-> p,
                        first |-> NoArtifact, second |-> NoArtifact] :
                          c \in TwiceCovers, m \in Messages, p \in Passwords}
          /\ image = Idle /\ audio = Idle /\ video = Idle
       \/ /\ image \in {[pc |-> "ready", data |-> d, message |-> m, password |-> p,
                         first |-> NoArtifact, second |-> NoArtifact] :
                           d \in TwiceImages, m \in Messages, p \in Passwords}
          /\ text = Idle /\ audio = Idle /\ video = Idle
       \/ /\ audio \in {[pc |-> "ready", samples |-> s, message |-> m, password |-> p,
                         first |-> NoArtifact, second |-> NoArtifact] :
                           s \in TwiceSamples, m \in AvMessages, p \in Passwords}
          /\ text = Idle /\ image = Idle /\ video = Idle
       \/ /\ video \in {[pc |-> "ready", frames |-> VideoFrames(sh, "mixed"),
                         width |-> sh[2], height |-> sh[3], message |-> m,
                         password |-> p, first |-> NoArtifact, second |-> NoArtifact] :
                           sh \in TwiceShapes, m \in AvMessages, p \in Passwords}
          /\ text = Idle /\ image = Idle /\ audio = Idle
    /\ idx = Idle /\ gens = Idle /\ vote = Idle /\ cap = Idle

(* The first and the second call of encode with the same arguments; each
   call of CryptoJS.AES.encrypt draws its own salt *)
TextEncodeFirst ==
    /\ text.pc = "ready"
    /\ \E salt \in SaltsFor(text.password) :
          text' = [text EXCEPT !.pc = "once", !.first = TextArtifact(text, salt)]
    /\ UNCHANGED <<audio, video, image, idx, gens, vote, cap>>

TextEncodeSecond ==
    /\ text.pc = "once"
    /\ \E salt \in SaltsFor(text.password) :
          text' = [text EXCEPT !.pc = "twice", !.second = TextArtifact(text, salt)]
    /\ UNCHANGED <<audio, video, image, idx, gens, vote, cap>>

ImageEncodeFirst ==
    /\ image.pc = "ready"
    /\ \E salt \in SaltsFor(image.password) :
          image' = [image EXCEPT !.pc = "once", !.first = ImageArtifact(image, salt)]
    /\ UNCHANGED <<audio, video, text, idx, gens, vote, cap>>

ImageEncodeSecond ==
    /\ image.pc = "once"
    /\ \E salt \in SaltsFor(image.password) :
          image' = [image EXCEPT !.pc = "twice", !.second = ImageArtifact(image, salt)]
    /\ UNCHANGED <<audio, video, text, idx, gens, vote, cap>>

AudioEncodeFirst ==
    /\ audio.pc = "ready"
    /\ \E salt \in SaltsFor(audio.password) :
          audio' = [audio EXCEPT !.pc = "once", !.first = AudioArtifact(audio, salt)]
    /\ UNCHANGED <<video, text, image, idx, gens, vote, cap>>

AudioEncodeSecond ==
    /\ audio.pc = "once"
    /\ \E salt \in SaltsFor(audio.password) :
          audio' = [audio EXCEPT !.pc = "twice", !.second = AudioArtifact(audio, salt)]
    /\ UNCHANGED <<video, text, image, idx, gens, vote, cap>>

VideoEncodeFirst ==
    /\ video.pc = "ready"
    /\ \E salt \in SaltsFor(video.password) :
          video' = [video EXCEPT !.pc = "once", !.first = VideoArtifact(video, salt)]
    /\ UNCHANGED <<audio, text, image, idx, gens, vote, cap>>

VideoEncodeSecond ==
    /\ video.pc = "once"
    /\ \E salt \in SaltsFor(video.password) :
          video' = [video EXCEPT !.pc = "twice", !.second = VideoArtifact(video, salt)]
    /\ UNCHANGED <<audio, text, image, idx, gens, vote, cap>>

NextTwice ==
    \/ TextEncodeFirst \/ TextEncodeSecond
    \/ ImageEncodeFirst \/ ImageEncodeSecond
    \/ AudioEncodeFirst \/ AudioEncodeSecond
    \/ VideoEncodeFirst \/ VideoEncodeSecond

SpecTwice == InitTwice /\ [][NextTwice]_vars

(* C18: encode determinism: two runs of the same codec's encode on identical
   carrier, message and password, a non-empty password included, produce
   identical artifacts. *)
C18_EncodeDeterminism ==
    /\ text.pc = "twice" => text.first = text.second
    /\ image.pc = "twice" => image.first = image.second
    /\ audio.pc = "twice" => audio.first = audio.second
    /\ video.pc = "twice" => video.first = video.second

----------------------------------------------------------------------------
(* Successive calls of VideoSteganography on one page: every call works in
   the file system of the one FFmpeg instance                              *)

(* Videos as the frames FFmpeg extracts from them: three frames, two frames,
   one frame, and a file that is no video *)
StoredVideos ==
    {VideoFrames(<<3, ExtractShape[1], ExtractShape[2]>>, "zeros"),
     VideoFrames(<<2, ExtractShape[1], ExtractShape[2]>>, "ones"),
     VideoFrames(<<1, ExtractShape[1], ExtractShape[2]>>, "mixed"),
     <<>>}

(* What a call handed to its caller *)
CapacityResult(bytes) == [kind |-> "capacity", value |-> bytes]

EncodeResult(enc) ==
    IF enc.error # "" THEN Thrown(enc.error) ELSE [kind |-> "blob", value |-> enc.blob]

InitFfmpeg ==
    /\ video = [fs |-> EmptyFs,
                last |-> [op |-> "none", file |-> <<>>, frames |-> <<>>,
                          result |-> Null]]
    /\ audio = Idle /\ text = Idle /\ image = Idle
    /\ idx = Idle /\ gens = Idle /\ vote = Idle /\ cap = Idle

(* VideoSteganography.calculateCapacity(file) *)
VideoCapacityFileCall ==
    /\ \E f \in StoredVideos :
          LET r == VideoCalculateCapacityFile(video.fs, f)
          IN video' = [fs |-> r.fs,
                       last |-> [op |-> "calculateCapacity", file |-> f,
                                 frames |-> r.frames,
                                 result |-> CapacityResult(r.result)]]
    /\ UNCHANGED <<audio, text, image, idx, gens, vote, cap>>

(* VideoSteganography.encode(file, '') *)
VideoEncodeFileCall ==
    /\ \E f \in StoredVideos :
          LET r == VideoEncodeFile(video.fs, f, <<>>, NoPassword, 0)
          IN video' = [fs |-> r.fs,
                       last |-> [op |-> "encode", file |-> f, frames |-> r.frames,
                                 result |-> EncodeResult(r)]]
    /\ UNCHANGED <<audio, text, image, idx, gens, vote, cap>>

(* VideoSteganography.decode(file) *)
VideoDecodeFileCall ==
    /\ \E f \in StoredVideos :
          LET r == VideoDecodeFile(video.fs, f, NoPassword)
          IN video' = [fs |-> r.fs,
                       last |-> [op |-> "decode", file |-> f, frames |-> r.frames,
                                 result |-> r.result]]
    /\ UNCHANGED <<audio, text, image, idx, gens, vote, cap>>

NextFfmpeg == VideoCapacityFileCall \/ VideoEncodeFileCall \/ VideoDecodeFileCall

SpecFfmpeg == InitFfmpeg /\ [][NextFfmpeg]_vars

(* C19: no state is shared between invocations: after any sequence of earlier
   calculateCapacity / encode / decode calls on other videos,
   videoToFrames(file) returns exactly the frames extracted from `file`, never
   a frame file left in the file system by an earlier call, and what the call
   returns is what it returns when it is the first call. *)
C19_NoSharedState ==
    /\ video.last.op # "none" => video.last.frames = video.last.file
    /\ video.last.op = "calculateCapacity"
       => video.last.result
          = CapacityResult(VideoCalculateCapacityFile(EmptyFs, video.last.file).result)
    /\ video.last.op = "decode"
       => video.last.result = VideoDecodeFile(EmptyFs, video.last.file, NoPassword).result

----------------------------------------------------------------------------
(* C20: the index generator fails loudly when count > universeSize:
   generateIndicesPRNG throws 'needed > length' instead of returning a
   sequence, exactly when needed > length, and nothing between it and the
   caller of encode catches the exception. *)
C20_IndicesFailLoudly ==
    idx.pc \in {"done", "thrown"}
    => /\ idx.pc = "thrown" <=> idx.needed > idx.length
       /\ idx.pc = "thrown" => idx.error = "needed > length" /\ idx.result = <<>>
       /\ idx.pc = "done" => idx.error = ""

(* One index more than the universe holds was asked for *)
C20_Witness ==
    /\ idx.pc = "thrown"
    /\ idx.length >= 1
    /\ idx.needed = idx.length + 1
    /\ idx.error = "needed > length"

----------------------------------------------------------------------------
(* Index agreement between encode and decode (C21)                         *)

(* redundantBinary.length of an encode call c with the given header *)
RedundantLength(header, c) ==
    Len(ApplyRedundancy(FullBinary(header,
            IF c.password # NoPassword THEN Encrypt(c.message, c.password, 0)
            ELSE c.message)))

(* The indices generated from `seed` over `length` elements with count
   `needed` *)
IndicesFor(seed, length, needed) ==
    GenerateIndicesPRNG(PrngOutputs(seed, needed), length, needed)

(* The first sequence is a prefix of the second *)
IsPrefix(short, long) ==
    /\ Len(short) <= Len(long)
    /\ \A i \in 1..Len(short) : long[i] = short[i]

(* C21: encode and decode agree on positions: for the same seed and universe
   size, the i-th index decode reads (count floor(0.8 * n) for audio,
   ceil(0.3 * pixels) per frame for video) equals the i-th index encode wrote
   (count = number of redundant bits, per frame the bits still to place), for
   every i below the number of redundant bits: the encoder's sequence is a
   prefix of the decoder's. *)
C21_EncoderPrefixOfDecoder ==
    /\ audio.pc = "encoded" =>
         LET n == SampleCount(audio.samples)
             seed == SeedFor(audio.password)
         IN IsPrefix(IndicesFor(seed, n, RedundantLength(AudioHeader, audio)),
                     IndicesFor(seed, n, FloorEmbeddingFraction(n)))
    /\ video.pc = "encoded" =>
         LET pixels == video.width * video.height
             perFrame == CeilEmbeddingRate(pixels)
             total == RedundantLength(VideoHeader, video)
             seed == SeedFor(video.password)
         IN \A frameIdx \in 0..(Len(video.frames) - 1) :
               frameIdx * perFrame < total =>
                  IsPrefix(IndicesFor(FrameSeed(seed, frameIdx), pixels,
                                      Min(perFrame, total - frameIdx * perFrame)),
                           IndicesFor(FrameSeed(seed, frameIdx), pixels, perFrame))

----------------------------------------------------------------------------
(* Placement of the redundant bits over the video frames (C22)             *)

(* The embedding loops of VideoSteganography.encode, as the list of slots
   <<frameIdx, pixel>> they write, in the order of the writes: entry i is
   the slot that receives redundantBinary[i - 1] *)
VideoPlacement(frames, bits, seed) ==
    FoldRange(LAMBDA st, frameIdx :
        IF ~(Len(st) < Len(bits)) THEN st
        ELSE LET pixels == PixelCount(frames[frameIdx + 1])
                 availableThisFrame == Min(CeilEmbeddingRate(pixels), Len(bits) - Len(st))
                 framePrng == PrngOutputs(FrameSeed(seed, frameIdx), availableThisFrame)
                 pixelIndices == GenerateIndicesPRNG(framePrng, pixels, availableThisFrame)
             IN st \o [pi \in 1..Len(pixelIndices) |-> <<frameIdx, pixelIndices[pi]>>],
        <<>>, 0, Len(frames) - 1)

(* The redundant bits of the encode call in `video`; their number does not
   depend on the salt *)
VideoRedundantBinary(salt) ==
    ApplyRedundancy(FullBinary(VideoHeader,
        IF video.password # NoPassword
        THEN Encrypt(video.message, video.password, salt) ELSE video.message))

(* The buffer encode handed to framesToVideo is the input with bit i in the
   blue LSB of the i-th slot, for some salt the cipher may have drawn *)
PlacementWritten(slots) ==
    \E salt \in SaltsFor(video.password) :
       LET bits == VideoRedundantBinary(salt)
       IN /\ Len(slots) = Len(bits)
          /\ \A i \in 1..Len(slots) :
                video.buffer[slots[i][1] + 1][slots[i][2] * 4 + 2] % 2 = bits[i]

(* C22: video placement completeness: whenever VideoSteganography.encode
   passes its capacity check (redundant bits <= floor(totalPixels * 0.3)),
   the per-frame embedding loop ends with every redundant bit written exactly
   once (bitIndex = redundantBinary.length), no (frame, pixel) slot written
   twice, and at most ceil(pixels * 0.3) pixels written in any one frame. *)
C22_PlacementComplete ==
    (/\ video.pc \in {"encoded", "rejected", "decoded"}
     /\ Len(VideoRedundantBinary(0))
           <= FloorEmbeddingRate(Len(video.frames) * video.width * video.height))
    => LET slots == VideoPlacement(video.frames, VideoRedundantBinary(0),
                                   SeedFor(video.password))
       IN /\ video.pc # "rejected"
          /\ video.bitIndex = Len(VideoRedundantBinary(0))
          /\ Len(slots) = video.bitIndex
          /\ \A i, j \in 1..Len(slots) : slots[i] = slots[j] => i = j
          /\ \A frameIdx \in 0..(Len(video.frames) - 1) :
                Cardinality({i \in 1..Len(slots) : slots[i][1] = frameIdx})
                   <= CeilEmbeddingRate(video.width * video.height)
          /\ PlacementWritten(slots)

(* An encode call that filled frames of 33 pixels with 10 bits each, one more
   than floor(33 * 0.3), and ended in the frame after the 28 full ones *)
C22_Witness ==
    /\ video.pc = "encoded"
    /\ video.width * video.height = 33
    /\ video.bitIndex = 288
    /\ Cardinality({i \in 1..288 :
          VideoPlacement(video.frames, VideoRedundantBinary(0),
                         SeedFor(video.password))[i][1] = 28}) = 8

----------------------------------------------------------------------------
(* Truncated length-prefixed frames (C23)                                  *)

(* The voted stream holds the magic, and either fewer than 32 bits follow it
   or fewer than 8 * L bits follow the 32-bit length L *)
TruncatedFrame(channel, header) ==
    LET headerBinary == BytesToBitString(header)
        headerIndex == IndexOf(channel, headerBinary)
        bodyStart == headerIndex + Len(headerBinary) + 32
    IN /\ headerIndex # -1
       /\ \/ Len(channel) < bodyStart
          \/ Len(channel) < bodyStart
                + 8 * ParseInt2(Substr(channel, headerIndex + Len(headerBinary), 32))

(* C23: length-prefixed frame parsing rejects truncated input: in the final
   decode pass of the audio and video codecs, if the collapsed bit stream
   contains the magic but fewer than 32 bits follow it, or fewer than 8 * L
   bits follow the 32-bit length L, decode returns null and never a string. *)
C23_TruncatedFrameRejected ==
    /\ (/\ audio.pc = "scanned" /\ audio.file.decodable
        /\ TruncatedFrame(AudioChannel(audio.file.samples, audio.decodePassword),
                          AudioHeader))
       => audio.result = Null
    /\ (/\ video.pc = "scanned"
        /\ TruncatedFrame(VideoChannel(video.file, video.decodePassword), VideoHeader))
       => video.result = Null

----------------------------------------------------------------------------
(* Layout of the encoded text (C24)                                        *)

(* The frame of the encode call in `text`: the bits of the message (of its
   ciphertext under the salt, with a password) and the end marker *)
TextFrame(salt) ==
    StringToBinary(IF text.password # NoPassword
                   THEN Encrypt(text.message, text.password, salt)
                   ELSE text.message) \o EndMarker

(* 00 -> U+200B, 01 -> U+200C, 10 -> U+200D, 11 -> U+FEFF *)
LayoutMarker(b1, b2) ==
    <<ZERO_WIDTH_SPACE, ZERO_WIDTH_NON_JOINER, ZERO_WIDTH_JOINER,
      ZERO_WIDTH_NO_BREAK_SPACE>>[2 * b1 + b2 + 1]

(* C24: text embedding layout: for a cover text without marker characters
   that is long enough for the frame, TextSteganography.encode returns
   c0 k0 c1 k1 ... c(j-1) k(j-1) followed by the remaining cover characters
   verbatim, where j = frameBitLength / 2 and ki is the marker for the i-th
   bit pair (00 -> U+200B, 01 -> U+200C, 10 -> U+200D, 11 -> U+FEFF);
   removing the marker characters from the result yields the cover text
   exactly and the result length is coverText.length + j. *)
C24_TextLayout ==
    (/\ text.pc \in {"encoded", "decoded"}
     /\ StripMarkers(text.cover) = text.cover
     /\ 2 * Len(text.cover) >= Len(TextFrame(0)))
    => \E salt \in SaltsFor(text.password) :
          LET frame == TextFrame(salt)
              j == Len(frame) \div 2
          IN /\ Len(text.stego) = Len(text.cover) + j
             /\ \A i \in 0..(j - 1) :
                   /\ text.stego[2 * i + 1] = text.cover[i + 1]
                   /\ text.stego[2 * i + 2] = LayoutMarker(frame[2 * i + 1], frame[2 * i + 2])
             /\ SubSeq(text.stego, 2 * j + 1, Len(text.stego))
                   = SubSeq(text.cover, j + 1, Len(text.cover))
             /\ StripMarkers(text.stego) = text.cover

(* A message of two characters was laid out over the first 16 characters of
   a cover text of 19, whose last 3 characters follow the last marker *)
C24_Witness ==
    /\ text.pc = "encoded"
    /\ text.password = NoPassword
    /\ Len(text.message) = 2
    /\ Len(text.cover) = 19
    /\ Len(text.stego) = 35
    /\ text.stego[32] \in Markers
    /\ SubSeq(text.stego, 33, 35) = SubSeq(text.cover, 17, 19)

----------------------------------------------------------------------------
(* Bytes the image encoder touches (C25)                                   *)

(* The frame of the encode call in `image` *)
ImageFrame(salt) ==
    StringToBinary(IF image.password # NoPassword
                   THEN Encrypt(image.message, image.password, salt)
                   ELSE image.message) \o EndMarker

(* C25: image encode frame: ImageSteganography.encode with a frame of B bits
   changes at most bit 0 of the red byte of pixels 0..B-1 and sets it to the
   corresponding frame bit; the upper 7 bits of those red bytes, every green,
   blue and alpha byte, and every byte of pixels with index >= B are
   unchanged. *)
C25_ImageFrameEffect ==
    image.pc \in {"encoded", "decoded"}
    => \E salt \in SaltsFor(image.password) :
          LET frame == ImageFrame(salt)
          IN \A k \in DOMAIN image.original :
                IF k % 4 = 0 /\ k \div 4 < Len(frame)
                THEN /\ image.data[k] % 2 = frame[(k \div 4) + 1]
                     /\ image.data[k] \div 2 = image.original[k] \div 2
                ELSE image.data[k] = image.original[k]

(* A frame shorter than the image was written into red bytes of differing
   values, and flipped the low bit of one of them *)
C25_Witness ==
    /\ image.pc = "encoded"
    /\ Len(ImageFrame(0)) < PixelCount(image.original)
    /\ image.original[0] # image.original[4]
    /\ \E k \in 0..(Len(ImageFrame(0)) - 1) :
          /\ image.original[4 * k] >= 2
          /\ image.data[4 * k] # image.original[4 * k]

----------------------------------------------------------------------------
(* The LSB write on Int16Array elements (C26)                              *)

(* The values an Int16Array element can hold *)
Int16 == -32768..32767

(* One element of modifiedSamples and the bit to store in it; the other
   variables are idle *)
InitLsb16 ==
    /\ vote \in {[pc |-> "sample", sample |-> s, bit |-> b, stored |-> s] :
                    s \in Int16, b \in {0, 1}}
    /\ audio = Idle /\ video = Idle /\ text = Idle /\ image = Idle
    /\ idx = Idle /\ gens = Idle /\ cap = Idle

(* modifiedSamples[sampleIndex] = (modifiedSamples[sampleIndex] & 0xFFFE) | bit *)
StoreLsb16 ==
    /\ vote.pc = "sample"
    /\ vote' = [vote EXCEPT !.pc = "stored",
                            !.stored = SetLsb16(vote.sample, vote.bit)]
    /\ UNCHANGED <<audio, video, text, image, idx, gens, cap>>

(* Encode and decode calls of the audio codec, and single LSB writes over
   the whole range of Int16 *)
SpecAudioLsb == (InitAudio \/ InitLsb16) /\ [][NextAudio \/ StoreLsb16]_vars

(* The 16 bits of an Int16 value above bit 0 *)
UpperBits16(v) == (v % 65536) \div 2

(* The samples encode selects, and the bit it writes into each, for some salt
   the cipher may draw *)
LsbWritesOnly(salt) ==
    LET redundantBinary ==
            ApplyRedundancy(FullBinary(AudioHeader,
                IF audio.password # NoPassword
                THEN Encrypt(audio.message, audio.password, salt)
                ELSE audio.message))
        n == SampleCount(audio.samples)
        indices == IndicesFor(SeedFor(audio.password), n, Len(redundantBinary))
    IN \A k \in DOMAIN audio.samples :
          IF \E i \in 1..Len(indices) : indices[i] = k
          THEN /\ \E i \in 1..Len(indices) :
                     indices[i] = k /\ audio.stego[k] % 2 = redundantBinary[i]
               /\ UpperBits16(audio.stego[k]) = UpperBits16(audio.samples[k])
               /\ audio.stego[k] \in Int16
          ELSE audio.stego[k] = audio.samples[k]

(* C26: audio LSB write on signed 16-bit samples: for every int16 value s
   (negative values included) and bit b, storing (s & 0xFFFE) | b back into
   the Int16Array gives a value whose bit 0 is b and whose other 15 bits equal
   those of s; samples at indices not selected by the index generator are
   unchanged, and the input sample array itself is not modified (encode works
   on a copy). *)
C26_AudioLsbWrite ==
    /\ vote.pc = "stored" =>
          /\ vote.stored \in Int16
          /\ vote.stored % 2 = vote.bit
          /\ UpperBits16(vote.stored) = UpperBits16(vote.sample)
    /\ audio.pc \in {"encoded", "decoded"} =>
          /\ \E salt \in SaltsFor(audio.password) : LsbWritesOnly(salt)
          /\ \E n \in AudioSampleCounts, pat \in Patterns :
                audio.samples = AudioSamples(n, pat)

(* Bit 0 of the sample -1 was cleared: (-1 & 0xFFFE) | 0 is 65534, which the
   Int16Array holds as -2 *)
C26_Witness ==
    /\ vote.pc = "stored" /\ vote.sample = -1 /\ vote.bit = 0
    /\ vote.stored = -2

----------------------------------------------------------------------------
(* Decoding a protected artifact without a password (C27)                  *)

(* C27: for the text and image codecs, decoding without a password an
   artifact that was encoded with a password returns null; the stored
   ciphertext string is never returned to the caller as if it were the
   message. *)
C27_CiphertextNotReturned ==
    /\ (/\ text.pc = "decoded"
        /\ text.password # NoPassword /\ text.decodePassword = NoPassword)
       => text.result = Null
    /\ (/\ image.pc = "decoded"
        /\ image.password # NoPassword /\ image.decodePassword = NoPassword)
       => image.result = Null

----------------------------------------------------------------------------
(* VideoSteganography.initFFmpeg under concurrent callers (part_002 lines
   1714-1720; AudioSteganography.initFFmpeg, lines 1535-1541, is the same
   function).  Each caller is an async call chain of the page; a step is
   what runs between two awaits.                                           *)

(* The calls that can be pending together before FFmpeg is loaded: the
   capacity calculations started by two file selections, and a decode
   started by its button *)
FfmpegCallers == {"calculateCapacity", "calculateCapacityAgain", "decode"}

InitInitFFmpeg ==
    /\ cap = [pc |-> "page", ffmpeg |-> "null", load |-> "none",
              callers |-> [c \in FfmpegCallers |-> "idle"]]
    /\ audio = Idle /\ video = Idle /\ text = Idle /\ image = Idle
    /\ idx = Idle /\ gens = Idle /\ vote = Idle

(* initFFmpeg up to its first await, or up to its return:
   if (!this.ffmpeg) { this.ffmpeg = createFFmpeg(...); await this.ffmpeg.load() }
   return this.ffmpeg *)
CallInitFFmpeg(c) ==
    /\ cap.pc = "page" /\ cap.callers[c] = "idle"
    /\ IF cap.ffmpeg = "null"
       THEN cap' = [cap EXCEPT !.ffmpeg = "instance", !.load = "pending",
                               !.callers[c] = "awaitLoad"]
       ELSE cap' = [cap EXCEPT !.callers[c] = "handed"]
    /\ UNCHANGED <<audio, video, text, image, idx, gens, vote>>

(* load() resolves: the caller waiting on it returns this.ffmpeg *)
LoadCompletes ==
    /\ cap.pc = "page" /\ cap.load = "pending"
    /\ cap' = [cap EXCEPT !.load = "done",
                  !.callers = [c \in FfmpegCallers |->
                                  IF cap.callers[c] = "awaitLoad" THEN "handed"
                                  ELSE cap.callers[c]]]
    /\ UNCHANGED <<audio, video, text, image, idx, gens, vote>>

(* load() rejects: initFFmpeg throws in the caller waiting on it, and
   this.ffmpeg keeps the instance *)
LoadFails ==
    /\ cap.pc = "page" /\ cap.load = "pending"
    /\ cap' = [cap EXCEPT !.load = "failed",
                  !.callers = [c \in FfmpegCallers |->
                                  IF cap.callers[c] = "awaitLoad" THEN "threw"
                                  ELSE cap.callers[c]]]
    /\ UNCHANGED <<audio, video, text, image, idx, gens, vote>>

(* ffmpeg.FS('writeFile', ...) in videoToFrames: FS throws unless load() has
   completed *)
UseInstance(c) ==
    /\ cap.pc = "page" /\ cap.callers[c] = "handed"
    /\ cap' = [cap EXCEPT !.callers[c] = IF cap.load = "done" THEN "ran" ELSE "threw"]
    /\ UNCHANGED <<audio, video, text, image, idx, gens, vote>>

(* The call chain ends, by return or by throw *)
CallSettles(c) ==
    /\ cap.pc = "page" /\ cap.callers[c] \in {"ran", "threw"}
    /\ cap' = [cap EXCEPT !.callers[c] = "idle"]
    /\ UNCHANGED <<audio, video, text, image, idx, gens, vote>>

NextInitFFmpeg ==
    \/ \E c \in FfmpegCallers : CallInitFFmpeg(c)
    \/ LoadCompletes
    \/ LoadFails
    \/ \E c \in FfmpegCallers : UseInstance(c)
    \/ \E c \in FfmpegCallers : CallSettles(c)

SpecInitFFmpeg == InitInitFFmpeg /\ [][NextInitFFmpeg]_vars

(* C28: lazy FFmpeg initialisation is safe under concurrency: for any
   interleaving of two or more concurrent initFFmpeg callers, no caller is
   handed an FFmpeg instance whose load() has not yet completed. *)
C28_InitFFmpegSafe ==
    cap.pc = "page" =>
       \A c \in FfmpegCallers : cap.callers[c] = "handed" => cap.load = "done"

----------------------------------------------------------------------------
(* The capacity shown by AudioSteganographyComponent and
   VideoSteganographyComponent (part_001 / part_000 lines 22, 36-40): every
   file selection starts calculateCapacity(file).then(setCapacity), and the
   promises settle in any order.                                           *)

MaxSelections == 3

(* The files the user picks from, by the number of samples each decodes to *)
SelectableFiles == {363, 453, 1000}

NoFile == 0

InitCapacityRace ==
    /\ cap = [pc |-> "component", encodeAudioFile |-> NoFile, capacity |-> 0,
              calls |-> <<>>]
    /\ audio = Idle /\ video = Idle /\ text = Idle /\ image = Idle
    /\ idx = Idle /\ gens = Idle /\ vote = Idle

(* handleEncodeFileSelect with another file: setEncodeAudioFile(file), and the
   effect that follows the render starts calculateCapacity(file) *)
SelectFile(f) ==
    /\ cap.pc = "component" /\ Len(cap.calls) < MaxSelections
    /\ f # cap.encodeAudioFile
    /\ cap' = [cap EXCEPT !.encodeAudioFile = f,
                          !.calls = Append(cap.calls, [file |-> f, settled |-> FALSE])]
    /\ UNCHANGED <<audio, video, text, image, idx, gens, vote>>

(* The promise of the i-th calculateCapacity call resolves: setCapacity(value) *)
CapacityResolves(i) ==
    /\ cap.pc = "component" /\ i \in 1..Len(cap.calls)
    /\ ~cap.calls[i].settled
    /\ cap' = [cap EXCEPT !.capacity = AudioCalculateCapacity(cap.calls[i].file),
                          !.calls[i].settled = TRUE]
    /\ UNCHANGED <<audio, video, text, image, idx, gens, vote>>

NextCapacityRace ==
    \/ \E f \in SelectableFiles : SelectFile(f)
    \/ \E i \in 1..MaxSelections : CapacityResolves(i)

SpecCapacityRace == InitCapacityRace /\ [][NextCapacityRace]_vars

(* C29: displayed capacity matches the selected file: for any sequence of
   file selections and any order in which the pending calculateCapacity
   promises resolve, once all of them have settled the capacity state equals
   the capacity of the currently selected file. *)
C29_CapacityMatchesSelection ==
    (/\ cap.pc = "component" /\ cap.encodeAudioFile # NoFile
     /\ \A i \in 1..Len(cap.calls) : cap.calls[i].settled)
    => cap.capacity = AudioCalculateCapacity(cap.encodeAudioFile)

----------------------------------------------------------------------------
(* handleEncode and handleDecode of AudioSteganographyComponent (part_001
   lines 65-163).  A handler runs up to its await in one step and from the
   settling of the awaited promise to its end in another; the callbacks of
   the intervals it started run in between and afterwards.                 *)

(* The files of the page, by the number of samples each decodes to, all
   samples 0 *)
PageFiles == {363, 453}

(* ' ', 'h', 'hi' *)
PageMessages == {<<32>>, <<104>>, <<104, 105>>}

(* no password, "a" *)
PagePasswords == {NoPassword, <<97>>}

(* String.prototype.trim() on a string whose only white space is ' ' *)
Trim(s) ==
    LET inked == {i \in 1..Len(s) : s[i] # 32}
    IN IF inked = {} THEN <<>>
       ELSE SubSeq(s, CHOOSE i \in inked : \A k \in inked : i <= k,
                      CHOOSE i \in inked : \A k \in inked : i >= k)

InitAudioPage ==
    /\ cap \in {[pc |-> "audioPage", encodeAudioFile |-> n, encodeMessage |-> m,
                 password |-> p, capacity |-> AudioCalculateCapacity(n),
                 decodeAudioFile |-> d,
                 isEncoding |-> FALSE, encodeProgress |-> 0, encodeIntervals |-> 0,
                 handleEncode |-> "idle", encodePromise |-> "", toast |-> "",
                 isDecoding |-> FALSE, decodeProgress |-> 0, decodeIntervals |-> 0,
                 handleDecode |-> "idle", decodePromise |-> Null] :
                   n \in PageFiles, m \in PageMessages, p \in PagePasswords,
                   d \in {UndecodableAudioFile, AudioFile(AudioSamples(100, "zeros"))}}
    /\ audio = Idle /\ video = Idle /\ text = Idle /\ image = Idle
    /\ idx = Idle /\ gens = Idle /\ vote = Idle

(* handleEncode up to `await AudioSteganography.encode(...)`, or to the
   return after a toast; encodePromise is what the promise of encode settles
   with, the message of the error or "" *)
HandleEncodeStart ==
    /\ cap.pc = "audioPage" /\ cap.handleEncode = "idle"
    /\ \E salt \in SaltsFor(cap.password) :
          LET enc == AudioEncode(AudioSamples(cap.encodeAudioFile, "zeros"),
                                 cap.encodeMessage, cap.password, salt)
          IN cap' = IF Trim(cap.encodeMessage) = <<>>
                    THEN [cap EXCEPT !.handleEncode = "returned",
                                     !.toast = "Missing required fields"]
                    ELSE IF Len(cap.encodeMessage) > cap.capacity
                    THEN [cap EXCEPT !.handleEncode = "returned",
                                     !.toast = "Message too large"]
                    ELSE [cap EXCEPT !.handleEncode = "awaiting", !.isEncoding = TRUE,
                                     !.encodeProgress = 0,
                                     !.encodeIntervals = cap.encodeIntervals + 1,
                                     !.encodePromise = enc.error]
    /\ UNCHANGED <<audio, video, text, image, idx, gens, vote>>

(* setEncodeProgress(prev => Math.min(prev + 10, 90)), every 200 ms *)
EncodeIntervalFires ==
    /\ cap.pc = "audioPage" /\ cap.encodeIntervals > 0
    /\ cap' = [cap EXCEPT !.encodeProgress = Min(cap.encodeProgress + 10, 90)]
    /\ UNCHANGED <<audio, video, text, image, idx, gens, vote>>

(* The rest of handleEncode, once encode has resolved or rejected *)
HandleEncodeSettles ==
    /\ cap.pc = "audioPage" /\ cap.handleEncode = "awaiting"
    /\ cap' = IF cap.encodePromise = ""
              THEN [cap EXCEPT !.handleEncode = "finished",
                               !.encodeIntervals = cap.encodeIntervals - 1,
                               !.encodeProgress = 100,
                               !.toast = "Audio encoded successfully",
                               !.isEncoding = FALSE]
              ELSE [cap EXCEPT !.handleEncode = "finished",
                               !.toast = "Encoding failed",
                               !.isEncoding = FALSE]
    /\ UNCHANGED <<audio, video, text, image, idx, gens, vote>>

(* handleDecode up to `await AudioSteganography.decode(...)`; decodePromise
   is what the promise of decode settles with *)
HandleDecodeStart ==
    /\ cap.pc = "audioPage" /\ cap.handleDecode = "idle"
    /\ cap' = [cap EXCEPT !.handleDecode = "awaiting", !.isDecoding = TRUE,
                          !.decodeProgress = 0,
                          !.decodeIntervals = cap.decodeIntervals + 1,
                          !.decodePromise =
                              AudioDecodeFile(cap.decodeAudioFile, cap.password)]
    /\ UNCHANGED <<audio, video, text, image, idx, gens, vote>>

(* setDecodeProgress(prev => Math.min(prev + 10, 90)), every 200 ms *)
DecodeIntervalFires ==
    /\ cap.pc = "audioPage" /\ cap.decodeIntervals > 0
    /\ cap' = [cap EXCEPT !.decodeProgress = Min(cap.decodeProgress + 10, 90)]
    /\ UNCHANGED <<audio, video, text, image, idx, gens, vote>>

(* The rest of handleDecode, once decode has resolved or rejected *)
HandleDecodeSettles ==
    /\ cap.pc = "audioPage" /\ cap.handleDecode = "awaiting"
    /\ LET message == cap.decodePromise
       IN cap' = IF message.kind = "throw"
                 THEN [cap EXCEPT !.handleDecode = "finished",
                                  !.toast = "Decoding failed",
                                  !.isDecoding = FALSE]
                 ELSE [cap EXCEPT !.handleDecode = "finished",
                                  !.decodeIntervals = cap.decodeIntervals - 1,
                                  !.decodeProgress = 100,
                                  !.toast = IF message.kind = "string" /\ message.value # <<>>
                                            THEN "Message decoded successfully"
                                            ELSE "No message found",
                                  !.isDecoding = FALSE]
    /\ UNCHANGED <<audio, video, text, image, idx, gens, vote>>

NextAudioPage ==
    \/ HandleEncodeStart
    \/ EncodeIntervalFires
    \/ HandleEncodeSettles
    \/ HandleDecodeStart
    \/ DecodeIntervalFires
    \/ HandleDecodeSettles

SpecAudioPage == InitAudioPage /\ [][NextAudioPage]_vars

(* C30: audio component timer cleanup: whenever handleEncode or handleDecode
   of AudioSteganographyComponent finishes, on success and on failure alike,
   the progress interval it started has been cleared and isEncoding /
   isDecoding is false, so no timer keeps updating the progress state
   afterwards. *)
C30_TimerCleanup ==
    cap.pc = "audioPage" =>
       /\ cap.handleEncode = "finished" => cap.encodeIntervals = 0 /\ ~cap.isEncoding
       /\ cap.handleDecode = "finished" => cap.decodeIntervals = 0 /\ ~cap.isDecoding

====
